---------------------------- MODULE Spec2Model ----------------------------
(***************************************************************************)
(* POWER-SUPPLaY acoustic transmitter (src/src/transmitter).               *)
(*                                                                         *)
(* main.c: the command line, the FSK framing layer (transmit_data_fsk,     *)
(* transmit_preamble, transmit_bit_fsk, calculate_crc8) and the oscillator *)
(* engine generate_tone with its worker threads (worker_routine), the two  *)
(* pthread barriers, the phase flag LO and the cancellation flag running.  *)
(*                                                                         *)
(* ofdm_transmitter.c, a program of its own: the command line, the frame   *)
(* (transmit_ofdm_frame, setup_ofdm_carriers, transmit_ofdm_symbol,        *)
(* cleanup_carriers) and the subcarrier threads (subcarrier_worker) with   *)
(* their start and sync barriers and the enable flags transmitting[].      *)
(*                                                                         *)
(* Threads are interleaved one C statement (one shared read or write, one  *)
(* library call) per step.  In main.c the monotonic clock advances only in *)
(* nanosleep, by the requested interval or more.  A run is a run of one of *)
(* the two programs: Spec is main.c, SpecOfdm is ofdm_transmitter.c and    *)
(* SpecAll is either.                                                      *)
(*                                                                         *)
(* modulation.c, a library of pure functions (calculate_crc8, verify_crc8, *)
(* manchester_encode, manchester_decode): SpecMod is a caller that applies *)
(* them to a byte buffer.                                                  *)
(***************************************************************************)
EXTENDS Integers, Sequences, FiniteSets, TLC

(***************************************************************************)
(* Program constants (main.c:27-31).                                       *)
(***************************************************************************)
NANO_PER_SECOND == 1000000000
MAX_CORES == 32
MIN_FREQ == 20
MAX_FREQ == 24000
PREAMBLE == 170
POLYNOMIAL == 7

(***************************************************************************)
(* Bounds of the model.                                                    *)
(***************************************************************************)
MaxWorkers == 2
MaxMsgLen == 2
MaxDurationMs == 2
MaxSubcarriers == 2
MaxDataLen == 2
MaxSamples == 2
\* threads of earlier generate_tone calls are counted, position by position,
\* up to MaxStale, and a count of MaxStale stands for MaxStale or more
MaxStale == 2

(***************************************************************************)
(* Command lines the model runs.                                           *)
(***************************************************************************)
FreqInputs == {MIN_FREQ - 1, MIN_FREQ, 1000, MAX_FREQ, MAX_FREQ + 1}
DurationInputs == 0 .. MaxDurationMs
CoreInputs == {0} \cup (1 .. MaxWorkers) \cup {MAX_CORES + 1}
\* fsk mode runs every frame with one core; tone mode covers several workers
FskCoreInputs == {0, 1, MAX_CORES + 1}
Fsk0Inputs == {MIN_FREQ - 1, 1000}
Fsk1Inputs == {500, MAX_FREQ + 1}
FskDurationInputs == {0, 1}
\* "HI!" and further bytes a C string can hold
Text == <<72, 73, 33, 255, 1, 128>>
MessageInputs == {SubSeq(Text, 1, n) : n \in 0 .. MaxMsgLen}

NoArgs ==
    [mode |-> "none", argc |-> 1, freq |-> 0, duration |-> 0, cores |-> 0,
     freq_0 |-> 0, freq_1 |-> 0, bit_duration_ms |-> 0, message |-> << >>]

\* a tone at MAX_FREQ, of 24 cycles a millisecond, lasts 1 ms at most, and so
\* do a tone at MIN_FREQ, whose first cycle outlasts every duration, and a
\* tone of more than two workers
ToneArgv ==
    {a \in {[NoArgs EXCEPT !.mode = "tone", !.argc = 5, !.freq = f,
                           !.duration = d, !.cores = c] :
                f \in FreqInputs, d \in DurationInputs, c \in CoreInputs} :
        (a.freq \in {MIN_FREQ, MAX_FREQ} \/ a.cores > 2) => a.duration <= 1}

\* every call after the first finds running 0 and returns without a cycle
\* whatever the bit duration, so bits that last are sent in the shortest
\* frame, the one of the empty message
FskArgv ==
    {a \in {[NoArgs EXCEPT !.mode = "fsk", !.argc = 7, !.freq_0 = f0, !.freq_1 = f1,
                           !.bit_duration_ms = d, !.cores = c, !.message = m] :
                f0 \in Fsk0Inputs, f1 \in Fsk1Inputs, d \in FskDurationInputs,
                c \in FskCoreInputs, m \in MessageInputs} :
        a.bit_duration_ms > 0 => a.message = << >>}

OtherArgv ==
    {NoArgs,
     [NoArgs EXCEPT !.mode = "tone", !.argc = 4],
     [NoArgs EXCEPT !.mode = "fsk", !.argc = 6],
     [NoArgs EXCEPT !.mode = "wav", !.argc = 4],
     [NoArgs EXCEPT !.mode = "unknown", !.argc = 2]}

ArgvInputs == ToneArgv \cup FskArgv \cup OtherArgv

(***************************************************************************)
(* State of main.c.                                                        *)
(***************************************************************************)
VARIABLES
    argv,            \* the command line (atoi already applied)
    mainPc,          \* main: "start", "tone", "fsk", "exit"
    exitCode,        \* main's return value, -1 while running
    fskPc,           \* transmit_data_fsk: "idle", "preamble", "payload", "crc", "done"
    byte_idx,        \* transmit_data_fsk: payload loop index
    bit_idx,         \* bit loop index, 7 down to 0
    crc,             \* transmit_data_fsk: local crc
    calls,           \* history: the generate_tone invocations so far
    gt,              \* arguments of the current generate_tone call
    ctlPc,           \* position of the controller inside generate_tone
    spawn_i,         \* generate_tone: loop index of the pthread_create loop
    stale,           \* threads of earlier calls still alive: how many at each position
    start,           \* generate_tone: start timestamp
    now,             \* CLOCK_MONOTONIC, nanoseconds since start was last read
    cycles,          \* history: completed iterations of the control loop of this call
    LO,              \* volatile int LO
    running,         \* volatile int running
    cycle_nano,      \* volatile long cycle_nano
    half_cycle_nano, \* volatile long half_cycle_nano
    bar_hi,          \* half_cycle_barrier_hi
    bar_lo,          \* half_cycle_barrier_lo
    workersFreed,    \* the workers array of this call has been freed
    cancelled,       \* workers of this call pthread_cancel was called on
    wpc,             \* position of each worker thread ("denied": returned
                     \* at main.c:79, "done": returned at main.c:102)
    signalled,       \* history: signal_handler has run
    ub               \* history: undefined behaviour that has occurred

mainVars ==
    <<argv, mainPc, exitCode, fskPc, byte_idx, bit_idx, crc, calls, gt, ctlPc,
      spawn_i, stale, start, now, cycles, LO, running, cycle_nano, half_cycle_nano,
      bar_hi, bar_lo, workersFreed, cancelled, wpc, signalled, ub>>

(***************************************************************************)
(* State of ofdm_transmitter.c, a program of its own.                      *)
(***************************************************************************)
VARIABLES
    ofdm_argv,       \* the command line (atoi already applied)
    ofdmPc,          \* main: "off", "start", "frame", "exit", "crashed"
    ofdmExit,        \* main's return value, -1 while running
    fpc,             \* position of the controller in transmit_ofdm_frame
    fstage,          \* the loop of transmit_ofdm_frame the controller is in
    f_i,             \* loop index of that loop
    sub_i,           \* loop index over the subcarriers
    symbols,         \* history: the symbols given to transmit_ofdm_symbol
    ofdm_running,    \* volatile int running
    transmitting,    \* volatile int transmitting[MAX_SUBCARRIERS]
    start_barrier,   \* transmit_ofdm_frame: start_barrier
    sync_barrier,    \* transmit_ofdm_frame: sync_barrier
    carriers,        \* transmit_ofdm_frame: carriers[]
    opc,             \* position of each subcarrier_worker thread ("denied":
                     \* returned at ofdm_transmitter.c:77, "done": at 128)
    cancelReq,       \* threads with a pending pthread_cancel request
    ofdm_signalled,  \* history: signal_handler has run
    ofdm_ub          \* history: undefined behaviour that has occurred

ofdmVars ==
    <<ofdm_argv, ofdmPc, ofdmExit, fpc, fstage, f_i, sub_i, symbols,
      ofdm_running, transmitting, start_barrier, sync_barrier, carriers, opc,
      cancelReq, ofdm_signalled, ofdm_ub>>

(***************************************************************************)
(* A caller of the utility functions of modulation.c (and of the copy of   *)
(* calculate_crc8 in main.c): its buffers and the values returned to it.   *)
(***************************************************************************)
VARIABLES
    mod_data,        \* the caller's input buffer, a sequence of bytes
    mod_crc,         \* value returned by calculate_crc8 of modulation.c
    main_crc,        \* value returned by calculate_crc8 of main.c
    mod_verify,      \* the last verify_crc8 call and its return value
    mod_encoded,     \* the output buffer of manchester_encode
    mod_decoded      \* the return value and output buffer of manchester_decode

modVars ==
    <<mod_data, mod_crc, main_crc, mod_verify, mod_encoded, mod_decoded>>

(***************************************************************************)
(* A caller of one of the other utility functions of modulation.c: the     *)
(* arguments it passes and what the calls it has made returned.            *)
(***************************************************************************)
VARIABLES
    util_arg,        \* the function under call and the caller's arguments
    util_ret         \* the calls made so far and what the last one returned

utilVars == <<util_arg, util_ret>>

(***************************************************************************)
(* State of wav_player.c, a program of its own, from the call of            *)
(* play_wav_am or play_wav_pwm on.                                         *)
(***************************************************************************)
VARIABLES
    wav_argv,        \* modulation and the arguments of play_wav_am / play_wav_pwm
    playPc,          \* position of the calling thread in play_wav_am / play_wav_pwm
    play_i,          \* loop index i of the loop under way
    play_j,          \* loop index j over the workers, inside the lock
    core_mutex,      \* pthread_mutex_t core_mutex: the threads that hold it
    wav_running,     \* volatile int running
    wav_workers,     \* workers[]: active, duty_cycle and frequency of each
    wav_wpc,         \* position of each worker thread
    wav_cancelReq,   \* threads with a pending pthread_cancel request
    wav_signalled    \* history: signal_handler has run

wavVars ==
    <<wav_argv, playPc, play_i, play_j, core_mutex, wav_running, wav_workers,
      wav_wpc, wav_cancelReq, wav_signalled>>

vars == <<mainVars, ofdmVars, modVars, utilVars, wavVars>>

Workers == 1 .. MaxWorkers

\* released is history: the times the barrier has let its party go since its init
NoBarrier == [inited |-> FALSE, count |-> 0, in |-> 0, released |-> 0]
NoCall == [freq |-> 0, duration_ms |-> 0, num_cores |-> 0]

(***************************************************************************)
(* Pure functions of main.c.                                               *)
(***************************************************************************)
\* a strict comparison in place of main.c:247
validate_frequency_exclusive(freq) == freq > MIN_FREQ /\ freq < MAX_FREQ

\* main.c:246-248
validate_frequency(freq) == freq >= MIN_FREQ /\ freq <= MAX_FREQ

Bit(x, i) == (x \div (2 ^ i)) % 2

\* the quotient of C's integer division, rounded toward zero
CDiv(a, b) ==
    LET q == (IF a < 0 THEN 0 - a ELSE a) \div (IF b < 0 THEN 0 - b ELSE b)
    IN  IF (a < 0) # (b < 0) THEN 0 - q ELSE q

RECURSIVE XorBits(_, _, _)
XorBits(a, b, n) ==
    IF n = 0 THEN 0
    ELSE ((a + b) % 2) + 2 * XorBits(a \div 2, b \div 2, n - 1)

Xor8(a, b) == XorBits(a, b, 8)

\* one iteration of the inner loop of calculate_crc8 (uint8_t arithmetic)
crc8_shift(c) ==
    IF Bit(c, 7) = 1 THEN Xor8((c * 2) % 256, POLYNOMIAL) ELSE (c * 2) % 256

RECURSIVE crc8_shifts(_, _)
crc8_shifts(c, j) == IF j = 0 THEN c ELSE crc8_shifts(crc8_shift(c), j - 1)

RECURSIVE crc8_from(_, _, _)
crc8_from(c, data, i) ==
    IF i > Len(data) THEN c
    ELSE LET crc_i == crc8_shifts(Xor8(c, data[i]), 8)
         IN  \* crc is a uint8_t; its value is settled before the next byte
             IF crc_i \in 0 .. 255 THEN crc8_from(crc_i, data, i + 1)
             ELSE crc_i

\* a CRC register that starts from 0xFF
calculate_crc8_seeded(data) == crc8_from(255, data, 1)

calculate_crc8(data) == crc8_from(0, data, 1)

\* a unit-count check that lets 0 through
CoresOkFromZero(c) == ~(c < 0 \/ c > MAX_CORES)

\* main.c:307 and main.c:335, the unit-count check of both subcommands
CoresOk(c) == ~(c < 1 \/ c > MAX_CORES)

\* a pre-flight check that fails only when both frequencies are invalid
FskFreqsOkEither(a) ==
    ~(~validate_frequency(a.freq_0) /\ ~validate_frequency(a.freq_1))

\* main.c:329, the pre-flight check of both FSK frequencies
FskFreqsOk(a) ==
    ~(~validate_frequency(a.freq_0) \/ ~validate_frequency(a.freq_1))

\* a party count that leaves the controller out
PartyCountWorkersOnly(num_cores) == num_cores

\* main.c:120-121, the party count both barriers are initialised with
PartyCount(num_cores) == num_cores + 1

\* the two tones exchanged
BitFreqSwapped(bit, a) == IF bit # 0 THEN a.freq_0 ELSE a.freq_1

\* main.c:179, transmit_bit_fsk selects the tone of a bit
BitFreq(bit, a) == IF bit # 0 THEN a.freq_1 ELSE a.freq_0

\* main.c:191, 227, 236: the byte the current bit is taken from
CurrentByte ==
    CASE fskPc = "preamble" -> PREAMBLE
      [] fskPc = "payload"  -> argv.message[byte_idx + 1]
      [] OTHER              -> crc

\* main.c:124, cycle_nano = NANO_PER_SECOND / freq in long arithmetic
CycleNano(freq) == CDiv(NANO_PER_SECOND, freq)

\* a half cycle as long as the cycle
HalfCycleNanoWhole(cycle) == cycle

\* main.c:125, half_cycle_nano = cycle_nano / 2
HalfCycleNano(cycle) == CDiv(cycle, 2)

\* main.c:137
DurationNano(duration_ms) == duration_ms * 1000000
duration_nano == DurationNano(gt.duration_ms)

\* main.c:153-154 and 161-162: nanosleep returns once the interval asked has
\* elapsed, on time or later, and its return value is not read.  How much
\* later is the scheduler's choice: none, or as long as the tone lasts
SleepLate(duration_ms) == {0, DurationNano(duration_ms)}

\* main.c:154, 162 and 253-256: nanosleep returns at once, with EINTR, when
\* signal_handler runs in the thread that sleeps; the handler may as well run
\* in another thread, and then the sleep goes on
Interrupted(pc) ==
    IF pc = "sleep_a" THEN {"sleep_a", "woken_a"}
    ELSE IF pc = "sleep_b" THEN {"sleep_b", "woken_b"}
    ELSE {pc}

\* the time a nanosleep of half ns takes: less than half when a signal woke
\* it (none of it, or all but the last nanosecond), half or more otherwise
Slept(woken, half, duration_ms) ==
    IF woken THEN {0, half - 1}
    ELSE {half + late : late \in SleepLate(duration_ms)}

\* main.c:69-103: the positions of worker_routine at which a thread is neither
\* blocked in a barrier nor has returned
StalePcs == {"affinity", "outer", "wait_lo", "hi_loop", "wait_hi", "lo_loop"}

StaleCount ==
    stale["affinity"] + stale["outer"] + stale["wait_lo"] + stale["hi_loop"]
        + stale["wait_hi"] + stale["lo_loop"]

\* k threads more where n are counted
StaleMore(n, k) == IF n + k > MaxStale THEN MaxStale ELSE n + k

\* one thread fewer where n are counted
StaleFewer(n) == IF n = MaxStale THEN {MaxStale, MaxStale - 1} ELSE {n - 1}

\* main.c:82-99: no statement sets running to 1, so once it is 0 a thread
\* about to test it (main.c:82, 87, 96) goes on without a write: from the
\* outer test and from the lo loop it returns, from the hi loop it comes to
\* the wait on the hi barrier.  Settled(pc) is where a thread at pc is next
\* to touch anything shared
Settled(pc) ==
    IF running # 0 THEN pc
    ELSE IF pc \in {"outer", "lo_loop"} THEN "done"
    ELSE IF pc = "hi_loop" THEN "wait_hi"
    ELSE pc

(***************************************************************************)
(* Initial state of main.c: the process has been started with some command *)
(* line (pc "start"), or this program is not the one run (pc "off").       *)
(***************************************************************************)
MainInit(pc, inputs) ==
    /\ argv \in inputs
    /\ mainPc = pc
    /\ exitCode = -1
    /\ fskPc = "idle"
    /\ byte_idx = 0
    /\ bit_idx = 0
    /\ crc = 0
    /\ calls = << >>
    /\ gt = NoCall
    /\ ctlPc = "idle"
    /\ spawn_i = 0
    /\ stale = [p \in StalePcs |-> 0]
    /\ start = 0
    /\ now = 0
    /\ cycles = 0
    /\ LO = 0
    /\ running = 1
    /\ cycle_nano = 0
    /\ half_cycle_nano = 0
    /\ bar_hi = NoBarrier
    /\ bar_lo = NoBarrier
    /\ workersFreed = FALSE
    /\ cancelled = {}
    /\ wpc = [w \in Workers |-> "none"]
    /\ signalled = FALSE
    /\ ub = {}

(***************************************************************************)
(* main and the framing layer (the controller thread outside               *)
(* generate_tone).                                                         *)
(***************************************************************************)
frameVars == <<fskPc, byte_idx, bit_idx, crc>>
toneVars ==
    <<start, now, LO, running, cycle_nano, half_cycle_nano, bar_hi, bar_lo,
      workersFreed, cancelled, wpc, ub>>

\* a call generate_tone(freq, duration_ms, num_cores)
CallGenerateTone(freq, duration_ms, num_cores) ==
    /\ gt' = [freq |-> freq, duration_ms |-> duration_ms, num_cores |-> num_cores]
    /\ calls' = Append(calls, gt')
    /\ ctlPc' = "validate"
    /\ spawn_i' = 0
    /\ cycles' = 0
    /\ UNCHANGED stale

Exit(code) ==
    /\ mainPc' = "exit"
    /\ exitCode' = code

\* main.c:279-347: argument checks up to the call of the subcommand
MainStart ==
    /\ UNCHANGED <<ofdmVars, modVars, utilVars, wavVars>>
    /\ mainPc = "start"
    /\ UNCHANGED <<argv, signalled, toneVars, byte_idx, crc>>
    /\ CASE argv.argc < 2 ->
              Exit(1) /\ UNCHANGED <<fskPc, bit_idx, gt, calls, ctlPc, spawn_i, stale, cycles>>
         [] argv.argc >= 2 /\ argv.mode = "tone" ->
              IF argv.argc # 5 \/ ~CoresOk(argv.cores)
              THEN Exit(1) /\ UNCHANGED <<fskPc, bit_idx, gt, calls, ctlPc, spawn_i, stale, cycles>>
              ELSE /\ mainPc' = "tone"
                   /\ CallGenerateTone(argv.freq, argv.duration, argv.cores)
                   /\ UNCHANGED <<exitCode, fskPc, bit_idx>>
         [] argv.argc >= 2 /\ argv.mode = "fsk" ->
              IF argv.argc # 7 \/ ~FskFreqsOk(argv) \/ ~CoresOk(argv.cores)
              THEN Exit(1) /\ UNCHANGED <<fskPc, bit_idx, gt, calls, ctlPc, spawn_i, stale, cycles>>
              ELSE \* transmit_data_fsk is entered; transmit_preamble starts
                   /\ mainPc' = "fsk"
                   /\ fskPc' = "preamble"
                   /\ bit_idx' = 7
                   /\ UNCHANGED <<exitCode, gt, calls, ctlPc, spawn_i, stale, cycles>>
         [] OTHER ->
              Exit(1) /\ UNCHANGED <<fskPc, bit_idx, gt, calls, ctlPc, spawn_i, stale, cycles>>

\* main.c:312, 361: generate_tone has returned to main
ToneReturn ==
    /\ UNCHANGED <<ofdmVars, modVars, utilVars, wavVars>>
    /\ mainPc = "tone"
    /\ ctlPc = "returned"
    /\ ctlPc' = "idle"
    /\ Exit(0)
    /\ UNCHANGED <<argv, signalled, toneVars, frameVars, gt, calls, spawn_i, stale, cycles>>

\* main.c:178-181 called from 192, 228, 237: the bit at the loop indices
FskBit ==
    /\ UNCHANGED <<ofdmVars, modVars, utilVars, wavVars>>
    /\ mainPc = "fsk"
    /\ ctlPc = "idle"
    /\ fskPc \in {"preamble", "payload", "crc"}
    /\ CallGenerateTone(BitFreq(Bit(CurrentByte, bit_idx), argv),
                        argv.bit_duration_ms, argv.cores)
    /\ UNCHANGED <<argv, mainPc, exitCode, signalled, toneVars, frameVars>>

\* main.c:190, 225-226, 233-235, 240: the loops step after a bit's call returned
FskAdvance ==
    /\ UNCHANGED <<ofdmVars, modVars, utilVars, wavVars>>
    /\ mainPc = "fsk"
    /\ ctlPc = "returned"
    /\ ctlPc' = "idle"
    /\ UNCHANGED <<argv, signalled, toneVars, gt, calls, spawn_i, stale, cycles>>
    /\ LET toCrc == /\ fskPc' = "crc"
                    /\ crc' = calculate_crc8(argv.message)
                    /\ bit_idx' = 7
                    /\ UNCHANGED <<byte_idx, mainPc, exitCode>>
       IN
       IF bit_idx > 0
       THEN /\ bit_idx' = bit_idx - 1
            /\ UNCHANGED <<fskPc, byte_idx, crc, mainPc, exitCode>>
       ELSE CASE fskPc = "preamble" ->
                   IF Len(argv.message) > 0
                   THEN /\ fskPc' = "payload"
                        /\ byte_idx' = 0
                        /\ bit_idx' = 7
                        /\ UNCHANGED <<crc, mainPc, exitCode>>
                   ELSE toCrc
              [] fskPc = "payload" ->
                   IF byte_idx + 1 < Len(argv.message)
                   THEN /\ byte_idx' = byte_idx + 1
                        /\ bit_idx' = 7
                        /\ UNCHANGED <<fskPc, crc, mainPc, exitCode>>
                   ELSE toCrc
              [] OTHER ->
                   \* transmit_data_fsk returns and main returns 0
                   /\ fskPc' = "done"
                   /\ bit_idx' = -1
                   /\ Exit(0)
                   /\ UNCHANGED <<byte_idx, crc>>

(***************************************************************************)
(* pthread barriers.  A barrier counts the threads blocked on it; the      *)
(* arrival that completes the party releases them all.                     *)
(***************************************************************************)
callerVars == <<argv, mainPc, exitCode, frameVars, gt, calls, signalled>>

\* thread self (0: the controller, w: worker w) calls pthread_barrier_wait
BarrierWait(isLo, self) ==
    LET bar   == IF isLo THEN bar_lo ELSE bar_hi
        atpc  == IF isLo THEN "at_lo" ELSE "at_hi"
        wnext == IF isLo THEN "hi_loop" ELSE "lo_loop"
        cnext == IF isLo THEN "sleep_a" ELSE "sleep_b"
        full  == bar.in + 1 = bar.count
        bar2  == [bar EXCEPT !.in = IF full THEN 0 ELSE bar.in + 1,
                             !.released = IF full THEN @ + 1 ELSE @]
    IN  /\ IF isLo THEN bar_lo' = bar2 /\ UNCHANGED bar_hi
                   ELSE bar_hi' = bar2 /\ UNCHANGED bar_lo
        /\ wpc' = [w \in Workers |->
                     IF w = self THEN (IF full THEN wnext ELSE atpc)
                     ELSE IF full /\ wpc[w] = atpc THEN wnext
                     ELSE wpc[w]]
        /\ ctlPc' = IF self = 0 THEN (IF full THEN cnext ELSE atpc)
                    ELSE IF full /\ ctlPc = atpc THEN cnext
                    ELSE ctlPc

(***************************************************************************)
(* generate_tone, the controller (main.c:109-173).                         *)
(***************************************************************************)
\* main.c:110-114
GenValidate ==
    /\ UNCHANGED <<ofdmVars, modVars, utilVars, wavVars>>
    /\ ctlPc = "validate"
    /\ ctlPc' = IF validate_frequency(gt.freq) THEN "init" ELSE "returned"
    /\ UNCHANGED <<callerVars, toneVars, spawn_i, stale, cycles>>

\* main.c:116-128: barrier initialisation, cycle timings, malloc.  No call
\* joins its threads: the threads of the call before, where they have not
\* returned and are not blocked in a barrier that call destroyed, live on
\* beside the workers of this call, and the array they were given has been
\* freed
GenInit ==
    /\ UNCHANGED <<ofdmVars, modVars, utilVars, wavVars>>
    /\ ctlPc = "init"
    /\ stale' = [pc \in StalePcs |->
                    StaleMore(stale[pc],
                              Cardinality({w \in Workers : Settled(wpc[w]) = pc}))]
    /\ wpc' = [w \in Workers |-> "none"]
    /\ bar_hi' = [inited |-> TRUE, count |-> PartyCount(gt.num_cores), in |-> 0,
                  released |-> 0]
    /\ bar_lo' = [inited |-> TRUE, count |-> PartyCount(gt.num_cores), in |-> 0,
                  released |-> 0]
    /\ cycle_nano' = CycleNano(gt.freq)
    /\ half_cycle_nano' = HalfCycleNano(cycle_nano')
    /\ workersFreed' = FALSE
    /\ cancelled' = {}
    /\ ctlPc' = "spawn"
    /\ UNCHANGED <<callerVars, spawn_i, cycles, start, now, LO, running, ub>>

\* main.c:129-132: one pthread_create
GenSpawn ==
    /\ UNCHANGED <<ofdmVars, modVars, utilVars, wavVars>>
    /\ ctlPc = "spawn"
    /\ spawn_i < gt.num_cores
    /\ wpc' = [wpc EXCEPT ![spawn_i + 1] = "affinity"]
    /\ spawn_i' = spawn_i + 1
    /\ UNCHANGED <<callerVars, ctlPc, stale, start, now, cycles, LO, running, cycle_nano,
                   half_cycle_nano, bar_hi, bar_lo, workersFreed, cancelled, ub>>

\* main.c:135-137: the call reads start.  CLOCK_MONOTONIC counts from an
\* unspecified point and the code uses differences of its readings only, so
\* the clock is counted from this reading on
GenClock ==
    /\ UNCHANGED <<ofdmVars, modVars, utilVars, wavVars>>
    /\ ctlPc = "spawn"
    /\ spawn_i >= gt.num_cores
    /\ now' = 0
    /\ start' = now'
    /\ ctlPc' = "loop"
    /\ UNCHANGED <<callerVars, spawn_i, stale, cycles, LO, running, cycle_nano,
                   half_cycle_nano, bar_hi, bar_lo, workersFreed, cancelled, wpc, ub>>

\* the loop would go on for one cycle more when elapsed equals the duration
ElapsedExceeded(elapsed, duration) == elapsed > duration

\* main.c:144: the elapsed-time test that ends the control loop
ElapsedReached(elapsed, duration) == elapsed >= duration

\* main.c:139-146: the loop condition, the read of the clock, which the
\* thread reaches at once or late, and the elapsed-time test
GenLoop ==
    /\ UNCHANGED <<ofdmVars, modVars, utilVars, wavVars>>
    /\ ctlPc = "loop"
    /\ IF running = 0
       THEN /\ ctlPc' = "cleanup"
            /\ UNCHANGED now
       ELSE \E late \in SleepLate(gt.duration_ms) :
               /\ now' = now + late
               /\ ctlPc' = IF ElapsedReached(now' - start, duration_nano)
                           THEN "cleanup" ELSE "set_lo0"
    /\ UNCHANGED <<callerVars, start, LO, running, cycle_nano, half_cycle_nano,
                   bar_hi, bar_lo, workersFreed, cancelled, wpc, ub, spawn_i,
                   stale, cycles>>

\* main.c:149
GenSetLo0 ==
    /\ UNCHANGED <<ofdmVars, modVars, utilVars, wavVars>>
    /\ ctlPc = "set_lo0"
    /\ LO' = 0
    /\ ctlPc' = "wait_lo"
    /\ UNCHANGED <<callerVars, spawn_i, stale, start, now, cycles, running, cycle_nano,
                   half_cycle_nano, bar_hi, bar_lo, workersFreed, cancelled, wpc, ub>>

\* main.c:150
GenWaitLo ==
    /\ UNCHANGED <<ofdmVars, modVars, utilVars, wavVars>>
    /\ ctlPc = "wait_lo"
    /\ BarrierWait(TRUE, 0)
    /\ UNCHANGED <<callerVars, spawn_i, stale, start, now, cycles, LO, running, cycle_nano,
                   half_cycle_nano, workersFreed, cancelled, ub>>

\* a controller that tests running again after the first sleep of a cycle
GenSleepATestsRunning ==
    /\ UNCHANGED <<ofdmVars, modVars, utilVars, wavVars>>
    /\ ctlPc \in {"sleep_a", "woken_a"}
    /\ \E t \in Slept(ctlPc = "woken_a", half_cycle_nano, gt.duration_ms) :
          now' = now + t
    /\ ctlPc' = IF running = 0 THEN "cleanup" ELSE "set_lo1"
    /\ UNCHANGED <<callerVars, spawn_i, stale, start, cycles, LO, running, cycle_nano,
                   half_cycle_nano, bar_hi, bar_lo, workersFreed, cancelled, wpc, ub>>

\* main.c:153-154
GenSleepA ==
    /\ UNCHANGED <<ofdmVars, modVars, utilVars, wavVars>>
    /\ ctlPc \in {"sleep_a", "woken_a"}
    /\ \E t \in Slept(ctlPc = "woken_a", half_cycle_nano, gt.duration_ms) :
          now' = now + t
    /\ ctlPc' = "set_lo1"
    /\ UNCHANGED <<callerVars, spawn_i, stale, start, cycles, LO, running, cycle_nano,
                   half_cycle_nano, bar_hi, bar_lo, workersFreed, cancelled, wpc, ub>>

\* main.c:157
GenSetLo1 ==
    /\ UNCHANGED <<ofdmVars, modVars, utilVars, wavVars>>
    /\ ctlPc = "set_lo1"
    /\ LO' = 1
    /\ ctlPc' = "wait_hi"
    /\ UNCHANGED <<callerVars, spawn_i, stale, start, now, cycles, running, cycle_nano,
                   half_cycle_nano, bar_hi, bar_lo, workersFreed, cancelled, wpc, ub>>

\* main.c:158
GenWaitHi ==
    /\ UNCHANGED <<ofdmVars, modVars, utilVars, wavVars>>
    /\ ctlPc = "wait_hi"
    /\ BarrierWait(FALSE, 0)
    /\ UNCHANGED <<callerVars, spawn_i, stale, start, now, cycles, LO, running, cycle_nano,
                   half_cycle_nano, workersFreed, cancelled, ub>>

\* main.c:161-162
GenSleepB ==
    /\ UNCHANGED <<ofdmVars, modVars, utilVars, wavVars>>
    /\ ctlPc \in {"sleep_b", "woken_b"}
    /\ \E t \in Slept(ctlPc = "woken_b", half_cycle_nano, gt.duration_ms) :
          now' = now + t
    /\ cycles' = cycles + 1
    /\ ctlPc' = "loop"
    /\ UNCHANGED <<callerVars, spawn_i, stale, start, LO, running, cycle_nano,
                   half_cycle_nano, bar_hi, bar_lo, workersFreed, cancelled, wpc, ub>>

\* main.c:165
GenCleanup ==
    /\ UNCHANGED <<ofdmVars, modVars, utilVars, wavVars>>
    /\ ctlPc = "cleanup"
    /\ running' = 0
    /\ ctlPc' = "cancel"
    /\ UNCHANGED <<callerVars, spawn_i, stale, start, now, cycles, LO, cycle_nano,
                   half_cycle_nano, bar_hi, bar_lo, workersFreed, cancelled, wpc, ub>>

\* main.c:166-168: pthread_cancel of every worker.  Cancellation is deferred
\* and worker_routine's loop holds no cancellation point (pthread_barrier_wait
\* and sched_yield are none), so the request does not stop a worker.
GenCancel ==
    /\ UNCHANGED <<ofdmVars, modVars, utilVars, wavVars>>
    /\ ctlPc = "cancel"
    /\ cancelled' = 1 .. gt.num_cores
    /\ ctlPc' = "free"
    /\ UNCHANGED <<callerVars, spawn_i, stale, start, now, cycles, LO, running, cycle_nano,
                   half_cycle_nano, bar_hi, bar_lo, workersFreed, wpc, ub>>

\* main.c:169
GenFree ==
    /\ UNCHANGED <<ofdmVars, modVars, utilVars, wavVars>>
    /\ ctlPc = "free"
    /\ workersFreed' = TRUE
    /\ ctlPc' = "destroy"
    /\ UNCHANGED <<callerVars, spawn_i, stale, start, now, cycles, LO, running, cycle_nano,
                   half_cycle_nano, bar_hi, bar_lo, cancelled, wpc, ub>>

\* main.c:171-173.  Destroying a barrier a thread is blocked on is undefined:
\* the call returns with the thread still blocked, or never returns.
GenDestroy ==
    /\ UNCHANGED <<ofdmVars, modVars, utilVars, wavVars>>
    /\ ctlPc = "destroy"
    /\ bar_hi' = NoBarrier
    /\ bar_lo' = NoBarrier
    /\ IF bar_hi.in > 0 \/ bar_lo.in > 0
       THEN /\ ub' = ub \cup {"destroy_busy"}
            /\ ctlPc' \in {"returned", "hung"}
       ELSE /\ ctlPc' = "returned"
            /\ UNCHANGED ub
    /\ UNCHANGED <<callerVars, spawn_i, stale, start, now, cycles, LO, running, cycle_nano,
                   half_cycle_nano, workersFreed, cancelled, wpc>>

(***************************************************************************)
(* worker_routine (main.c:69-103).                                         *)
(***************************************************************************)
workerFrame ==
    <<callerVars, ctlPc, spawn_i, stale, start, now, cycles, LO, running, cycle_nano,
      half_cycle_nano, bar_hi, bar_lo, workersFreed, cancelled>>

\* main.c:70-80: the read of thread_data->core_id (of freed memory once the
\* controller has freed the array) and the affinity request, which the
\* platform grants or denies
WorkerAffinity(w) ==
    /\ UNCHANGED <<ofdmVars, modVars, utilVars, wavVars>>
    /\ mainPc \notin {"off", "exit"}
    /\ wpc[w] = "affinity"
    /\ ub' = IF workersFreed THEN ub \cup {"use_after_free"} ELSE ub
    /\ \E granted \in BOOLEAN :
          wpc' = [wpc EXCEPT ![w] = IF granted THEN "outer" ELSE "denied"]
    /\ UNCHANGED workerFrame

\* main.c:82
WorkerOuter(w) ==
    /\ UNCHANGED <<ofdmVars, modVars, utilVars, wavVars>>
    /\ mainPc \notin {"off", "exit"}
    /\ wpc[w] = "outer"
    /\ wpc' = [wpc EXCEPT ![w] = IF running # 0 THEN "wait_lo" ELSE "done"]
    /\ UNCHANGED <<workerFrame, ub>>

\* main.c:84.  Waiting on a destroyed barrier is undefined: the thread blocks
\* for good.
WorkerWaitLo(w) ==
    /\ UNCHANGED <<ofdmVars, modVars, utilVars, wavVars>>
    /\ mainPc \notin {"off", "exit"}
    /\ wpc[w] = "wait_lo"
    /\ IF bar_lo.inited
       THEN BarrierWait(TRUE, w) /\ UNCHANGED ub
       ELSE /\ wpc' = [wpc EXCEPT ![w] = "stuck"]
            /\ ub' = ub \cup {"wait_destroyed"}
            /\ UNCHANGED <<ctlPc, bar_hi, bar_lo>>
    /\ UNCHANGED <<callerVars, spawn_i, stale, start, now, cycles, LO, running, cycle_nano,
                   half_cycle_nano, workersFreed, cancelled>>

\* main.c:87-90: the busy loop is left once LO is set or running is cleared
WorkerHiLoop(w) ==
    /\ UNCHANGED <<ofdmVars, modVars, utilVars, wavVars>>
    /\ mainPc \notin {"off", "exit"}
    /\ wpc[w] = "hi_loop"
    /\ ~(LO = 0 /\ running # 0)
    /\ wpc' = [wpc EXCEPT ![w] = "wait_hi"]
    /\ UNCHANGED <<workerFrame, ub>>

\* main.c:93
WorkerWaitHi(w) ==
    /\ UNCHANGED <<ofdmVars, modVars, utilVars, wavVars>>
    /\ mainPc \notin {"off", "exit"}
    /\ wpc[w] = "wait_hi"
    /\ IF bar_hi.inited
       THEN BarrierWait(FALSE, w) /\ UNCHANGED ub
       ELSE /\ wpc' = [wpc EXCEPT ![w] = "stuck"]
            /\ ub' = ub \cup {"wait_destroyed"}
            /\ UNCHANGED <<ctlPc, bar_hi, bar_lo>>
    /\ UNCHANGED <<callerVars, spawn_i, stale, start, now, cycles, LO, running, cycle_nano,
                   half_cycle_nano, workersFreed, cancelled>>

\* main.c:96-99: the yield loop is left once LO is cleared or running is cleared
WorkerLoLoop(w) ==
    /\ UNCHANGED <<ofdmVars, modVars, utilVars, wavVars>>
    /\ mainPc \notin {"off", "exit"}
    /\ wpc[w] = "lo_loop"
    /\ ~(LO # 0 /\ running # 0)
    /\ wpc' = [wpc EXCEPT ![w] = "outer"]
    /\ UNCHANGED <<workerFrame, ub>>

\* a thread of an earlier call leaves position from for position to and
\* settles; it is no longer counted when that is no position of StalePcs
StaleMove(from, to) ==
    IF Settled(to) = from THEN {stale}
    ELSE {[pc \in StalePcs |->
              IF pc = from THEN n
              ELSE IF pc = Settled(to) THEN StaleMore(stale[pc], 1)
              ELSE stale[pc]] : n \in StaleFewer(stale[from])}

\* main.c:84 and 93 in a thread of an earlier call: it waits on the barrier
\* object as it is now, and waiting on a destroyed barrier blocks it for good
StaleWait(isLo) ==
    LET bar  == IF isLo THEN bar_lo ELSE bar_hi
        from == IF isLo THEN "wait_lo" ELSE "wait_hi"
        to   == IF isLo THEN "hi_loop" ELSE "lo_loop"
    IN  IF bar.inited
        THEN /\ BarrierWait(isLo, -1)
             /\ stale' \in StaleMove(from, IF bar.in + 1 = bar.count THEN to ELSE "blocked")
             /\ UNCHANGED ub
        ELSE /\ stale' \in StaleMove(from, "blocked")
             /\ ub' = ub \cup {"wait_destroyed"}
             /\ UNCHANGED <<ctlPc, bar_hi, bar_lo, wpc>>

\* main.c:69-103, one step of a thread that an earlier generate_tone call
\* created and never joined; it reads core_id from the array that call freed
StaleStep(pc) ==
    /\ UNCHANGED <<ofdmVars, modVars, utilVars, wavVars>>
    /\ mainPc \notin {"off", "exit"}
    /\ stale[pc] > 0
    /\ IF pc = "affinity"
       THEN /\ \E granted \in BOOLEAN :
                  stale' \in StaleMove(pc, IF granted THEN "outer" ELSE "denied")
            /\ ub' = ub \cup {"use_after_free"}
            /\ UNCHANGED <<ctlPc, bar_hi, bar_lo, wpc>>
       ELSE IF pc = "outer"
       THEN /\ stale' \in StaleMove(pc, IF running # 0 THEN "wait_lo" ELSE "done")
            /\ UNCHANGED <<ctlPc, bar_hi, bar_lo, wpc, ub>>
       ELSE IF pc = "hi_loop"
       THEN /\ ~(LO = 0 /\ running # 0)
            /\ stale' \in StaleMove(pc, "wait_hi")
            /\ UNCHANGED <<ctlPc, bar_hi, bar_lo, wpc, ub>>
       ELSE IF pc = "lo_loop"
       THEN /\ ~(LO # 0 /\ running # 0)
            /\ stale' \in StaleMove(pc, "outer")
            /\ UNCHANGED <<ctlPc, bar_hi, bar_lo, wpc, ub>>
       ELSE StaleWait(pc = "wait_lo")
    /\ UNCHANGED <<callerVars, spawn_i, start, now, cycles, LO, running, cycle_nano,
                   half_cycle_nano, workersFreed, cancelled>>

Stale == \E pc \in StalePcs : StaleStep(pc)

(***************************************************************************)
(* signal_handler (main.c:253-256), installed for SIGINT and SIGTERM.  It   *)
(* clears running, and it ends a nanosleep of the thread it runs in.       *)
(***************************************************************************)
Signal ==
    /\ UNCHANGED <<ofdmVars, modVars, utilVars, wavVars>>
    /\ mainPc \notin {"off", "exit"}
    /\ running' = 0
    /\ signalled' = TRUE
    /\ ctlPc' \in Interrupted(ctlPc)
    /\ UNCHANGED <<argv, mainPc, exitCode, frameVars, gt, calls, spawn_i, stale,
                   start, now, cycles, LO, cycle_nano, half_cycle_nano, bar_hi,
                   bar_lo, workersFreed, cancelled, wpc, ub>>

Controller ==
    \/ MainStart
    \/ ToneReturn
    \/ FskBit
    \/ FskAdvance
    \/ GenValidate
    \/ GenInit
    \/ GenSpawn
    \/ GenClock
    \/ GenLoop
    \/ GenSetLo0
    \/ GenWaitLo
    \/ GenSleepA
    \/ GenSetLo1
    \/ GenWaitHi
    \/ GenSleepB
    \/ GenCleanup
    \/ GenCancel
    \/ GenFree
    \/ GenDestroy

Worker(w) ==
    \/ WorkerAffinity(w)
    \/ WorkerOuter(w)
    \/ WorkerWaitLo(w)
    \/ WorkerHiLoop(w)
    \/ WorkerWaitHi(w)
    \/ WorkerLoLoop(w)

MainNext ==
    \/ Controller
    \/ \E w \in Workers : Worker(w)
    \/ Stale
    \/ Signal

(***************************************************************************)
(* ofdm_transmitter.c.                                                     *)
(*                                                                         *)
(* The controller (main, transmit_ofdm_frame, setup_ofdm_carriers,         *)
(* transmit_ofdm_symbol, cleanup_carriers) and one subcarrier_worker       *)
(* thread per subcarrier.  Threads are interleaved without timing          *)
(* assumptions: a usleep or nanosleep ends at any later time, and the      *)
(* phase a worker computes from the clock is either half of its cycle.     *)
(***************************************************************************)
MAX_SUBCARRIERS == 8
PREAMBLE_ROUNDS == 4

\* base_freq and freq_spacing
OfdmFreqInputs == {<<19, 200>>, <<26, -26>>, <<8000, 200>>, <<24001, 200>>}
\* the empty message and "HI"
OfdmMessageInputs == {<< >>, <<72, 73>>}
OfdmCountInputs == {0} \cup (1 .. MaxSubcarriers) \cup {MAX_SUBCARRIERS + 1}

NoOfdmArgs ==
    [argc |-> 1, base_freq |-> 0, freq_spacing |-> 0, num_subcarriers |-> 0,
     message |-> << >>]

\* ofdm_transmitter 8000 1500000000 2 "": the second subcarrier is above
\* NANO_PER_SECOND Hz
OfdmWideArgv ==
    [argc |-> 5, base_freq |-> 8000, freq_spacing |-> 1500000000,
     num_subcarriers |-> 2, message |-> << >>]

\* ofdm_transmitter 8000 2147483647 2 "": the frequency of the second
\* subcarrier is beyond the largest int
OfdmOverflowArgv ==
    [argc |-> 5, base_freq |-> 8000, freq_spacing |-> 2147483647,
     num_subcarriers |-> 2, message |-> << >>]

\* the carriers that end at 0 Hz, and more than two carriers, send the frame
\* of the empty message
OfdmArgv ==
    {a \in {[argc |-> 5, base_freq |-> f[1], freq_spacing |-> f[2],
             num_subcarriers |-> n, message |-> m] :
                f \in OfdmFreqInputs, n \in OfdmCountInputs, m \in OfdmMessageInputs} :
        (a.freq_spacing < 0 \/ a.num_subcarriers > 2) => a.message = << >>}
    \cup {NoOfdmArgs, OfdmWideArgv, OfdmOverflowArgv}

Subcarriers == 1 .. MaxSubcarriers

NoCarrier == [core_id |-> -1, subcarrier_id |-> -1, frequency |-> 0]

\* the worker threads the frame has created
num_subcarriers == ofdm_argv.num_subcarriers

\* ofdm_transmitter.c:299
SubcarrierCountOk(n) == ~(n < 1 \/ n > MAX_SUBCARRIERS)

\* ofdm_transmitter.c:304
BaseFreqOk(f) == ~(f < 20 \/ f > 24000)

\* a party count that leaves the controller out
OfdmPartyCountWorkersOnly(n) == n

\* ofdm_transmitter.c:137-138, the party count of start and sync barrier
OfdmPartyCount(n) == n + 1

\* the sum of two int values leaves the range of int
IntAddOverflows(a, b) ==
    \/ a > 0 /\ b > 0 /\ a > 2147483647 - b
    \/ a < 0 /\ b < 0 /\ a < (0 - 2147483647 - 1) - b

\* a + b in int: the build wraps a sum that leaves the range by 2^32
IntAdd(a, b) ==
    IF a > 0 /\ b > 0 /\ a > 2147483647 - b
    THEN (a - 2147483647 - 1) + (b - 2147483647 - 1)
    ELSE IF a < 0 /\ b < 0 /\ a < (0 - 2147483647 - 1) - b
    THEN (a + 2147483647 + 1) + (b + 2147483647 + 1)
    ELSE a + b

\* i * s in int for i >= 0, as i additions of s
RECURSIVE IntTimes(_, _)
IntTimes(i, s) == IF i = 0 THEN 0 ELSE IntAdd(IntTimes(i - 1, s), s)

RECURSIVE IntTimesOverflows(_, _)
IntTimesOverflows(i, s) ==
    /\ i > 0
    /\ \/ IntTimesOverflows(i - 1, s)
       \/ IntAddOverflows(IntTimes(i - 1, s), s)

\* ofdm_transmitter.c:143, int arithmetic on a freq_spacing that main does
\* not check
CarrierFrequency(i) ==
    IntAdd(ofdm_argv.base_freq, IntTimes(i, ofdm_argv.freq_spacing))

\* ofdm_transmitter.c:143: the product or the sum overflows, which is
\* undefined for int
CarrierFrequencyOverflows(i) ==
    \/ IntTimesOverflows(i, ofdm_argv.freq_spacing)
    \/ IntAddOverflows(ofdm_argv.base_freq, IntTimes(i, ofdm_argv.freq_spacing))

\* ofdm_transmitter.c:163, the loop bound i < num_subcarriers && i < 8
KeyedCount == IF num_subcarriers < 8 THEN num_subcarriers ELSE 8

\* a frame whose preamble starts with 0x55
CurrentSymbolPreambleSwapped ==
    CASE fstage = "preamble_aa" -> 85
      [] fstage = "preamble_55" -> 170
      [] fstage = "data"        -> ofdm_argv.message[f_i + 1]
      [] fstage = "eof_1"       -> 255
      [] fstage = "eof_2"       -> 0
      [] OTHER                  -> 255

\* a mapping that keys subcarrier 0 with the most significant bit
SymbolBitMsbFirst(symbol, i) == Bit(symbol, 7 - i)

\* ofdm_transmitter.c:164: (symbol >> i) & 1
SymbolBit(symbol, i) == Bit(symbol, i)

\* ofdm_transmitter.c:206-207, 214, 219-221: the symbol of the current call
CurrentSymbol ==
    CASE fstage = "preamble_aa" -> 170
      [] fstage = "preamble_55" -> 85
      [] fstage = "data"        -> ofdm_argv.message[f_i + 1]
      [] fstage = "eof_1"       -> 255
      [] fstage = "eof_2"       -> 0
      [] OTHER                  -> 255

(***************************************************************************)
(* Initial state of ofdm_transmitter.c (pc "start"), or the program is not *)
(* the one run (pc "off").                                                 *)
(***************************************************************************)
OfdmInit(pc, inputs) ==
    /\ ofdm_argv \in inputs
    /\ ofdmPc = pc
    /\ ofdmExit = -1
    /\ fpc = "idle"
    /\ fstage = "none"
    /\ f_i = 0
    /\ sub_i = 0
    /\ symbols = << >>
    /\ ofdm_running = 1
    /\ transmitting = [i \in 0 .. MAX_SUBCARRIERS - 1 |-> 0]
    /\ start_barrier = NoBarrier
    /\ sync_barrier = NoBarrier
    /\ carriers = [w \in Subcarriers |-> NoCarrier]
    /\ opc = [w \in Subcarriers |-> "none"]
    /\ cancelReq = {}
    /\ ofdm_signalled = FALSE
    /\ ofdm_ub = {}

\* thread self (0: the controller, w: the worker of subcarrier w - 1) calls
\* pthread_barrier_wait on the start barrier or on the sync barrier
OfdmBarrierWait(isStart, self) ==
    LET bar   == IF isStart THEN start_barrier ELSE sync_barrier
        atpc  == IF isStart THEN "at_start" ELSE "at_sync"
        wnext == IF isStart THEN "outer" ELSE "check_tx"
        cnext == IF isStart THEN "sym_call" ELSE "sym_sleep"
        full  == bar.in + 1 = bar.count
        bar2  == [bar EXCEPT !.in = IF full THEN 0 ELSE bar.in + 1,
                             !.released = IF full THEN @ + 1 ELSE @]
    IN  /\ IF isStart THEN start_barrier' = bar2 /\ UNCHANGED sync_barrier
                      ELSE sync_barrier' = bar2 /\ UNCHANGED start_barrier
        /\ opc' = [w \in Subcarriers |->
                     IF w = self THEN (IF full THEN wnext ELSE atpc)
                     ELSE IF full /\ opc[w] = atpc THEN wnext
                     ELSE opc[w]]
        /\ fpc' = IF self = 0 THEN (IF full THEN cnext ELSE atpc)
                  ELSE IF full /\ fpc = atpc THEN cnext
                  ELSE fpc

\* ofdm_transmitter.c:281-321: argument checks, then transmit_ofdm_frame
OfdmMainStart ==
    /\ UNCHANGED <<mainVars, modVars, utilVars, wavVars>>
    /\ ofdmPc = "start"
    /\ IF \/ ofdm_argv.argc # 5
          \/ ~SubcarrierCountOk(ofdm_argv.num_subcarriers)
          \/ ~BaseFreqOk(ofdm_argv.base_freq)
       THEN /\ ofdmPc' = "exit"
            /\ ofdmExit' = 1
            /\ UNCHANGED <<fpc, fstage>>
       ELSE /\ ofdmPc' = "frame"
            /\ fpc' = "setup_init"
            /\ fstage' = "setup"
            /\ UNCHANGED ofdmExit
    /\ UNCHANGED <<ofdm_argv, f_i, sub_i, symbols, ofdm_running, transmitting,
                   start_barrier, sync_barrier, carriers, opc, cancelReq,
                   ofdm_signalled, ofdm_ub>>

\* ofdm_transmitter.c:137-138
OfdmSetupInit ==
    /\ UNCHANGED <<mainVars, modVars, utilVars, wavVars>>
    /\ ofdmPc = "frame"
    /\ fpc = "setup_init"
    /\ start_barrier' = [inited |-> TRUE, count |-> OfdmPartyCount(num_subcarriers),
                         in |-> 0, released |-> 0]
    /\ sync_barrier' = [inited |-> TRUE, count |-> OfdmPartyCount(num_subcarriers),
                         in |-> 0, released |-> 0]
    /\ sub_i' = 0
    /\ fpc' = "setup_spawn"
    /\ UNCHANGED <<ofdm_argv, ofdmPc, ofdmExit, fstage, f_i, symbols,
                   ofdm_running, transmitting, carriers, opc, cancelReq,
                   ofdm_signalled, ofdm_ub>>

\* ofdm_transmitter.c:140-148: one carrier record and its pthread_create
OfdmSetupSpawn ==
    /\ UNCHANGED <<mainVars, modVars, utilVars, wavVars>>
    /\ ofdmPc = "frame"
    /\ fpc = "setup_spawn"
    /\ sub_i < num_subcarriers
    /\ carriers' = [carriers EXCEPT ![sub_i + 1] =
                      [core_id |-> sub_i, subcarrier_id |-> sub_i,
                       frequency |-> CarrierFrequency(sub_i)]]
    /\ ofdm_ub' = IF CarrierFrequencyOverflows(sub_i)
                  THEN ofdm_ub \cup {"signed_overflow"} ELSE ofdm_ub
    /\ opc' = [opc EXCEPT ![sub_i + 1] = "affinity"]
    /\ sub_i' = sub_i + 1
    /\ UNCHANGED <<ofdm_argv, ofdmPc, ofdmExit, fpc, fstage, f_i, symbols,
                   ofdm_running, transmitting, start_barrier, sync_barrier,
                   cancelReq, ofdm_signalled>>

\* ofdm_transmitter.c:151
OfdmSetupWait ==
    /\ UNCHANGED <<mainVars, modVars, utilVars, wavVars>>
    /\ ofdmPc = "frame"
    /\ fpc = "setup_spawn"
    /\ sub_i >= num_subcarriers
    /\ OfdmBarrierWait(TRUE, 0)
    /\ UNCHANGED <<ofdm_argv, ofdmPc, ofdmExit, fstage, f_i, sub_i, symbols,
                   ofdm_running, transmitting, carriers, cancelReq,
                   ofdm_signalled, ofdm_ub>>

\* ofdm_transmitter.c:205-207, 212-214, 219-221: the next transmit_ofdm_symbol call
OfdmSymbolCall ==
    /\ UNCHANGED <<mainVars, modVars, utilVars, wavVars>>
    /\ ofdmPc = "frame"
    /\ fpc = "sym_call"
    /\ IF fstage = "setup"
       THEN fstage' = "preamble_aa" /\ f_i' = 0
       ELSE UNCHANGED <<fstage, f_i>>
    /\ symbols' = Append(symbols, IF fstage = "setup" THEN 170 ELSE CurrentSymbol)
    /\ sub_i' = 0
    /\ fpc' = "sym_set"
    /\ UNCHANGED <<ofdm_argv, ofdmPc, ofdmExit, ofdm_running, transmitting,
                   start_barrier, sync_barrier, carriers, opc, cancelReq,
                   ofdm_signalled, ofdm_ub>>

\* ofdm_transmitter.c:163-166: one enable flag is set from its bit of the symbol
OfdmSymbolSet ==
    /\ UNCHANGED <<mainVars, modVars, utilVars, wavVars>>
    /\ ofdmPc = "frame"
    /\ fpc = "sym_set"
    /\ sub_i < KeyedCount
    /\ transmitting' = [transmitting EXCEPT ![sub_i] = SymbolBit(CurrentSymbol, sub_i)]
    /\ sub_i' = sub_i + 1
    /\ UNCHANGED <<ofdm_argv, ofdmPc, ofdmExit, fpc, fstage, f_i, symbols,
                   ofdm_running, start_barrier, sync_barrier, carriers, opc,
                   cancelReq, ofdm_signalled, ofdm_ub>>

\* ofdm_transmitter.c:170
OfdmSymbolWait ==
    /\ UNCHANGED <<mainVars, modVars, utilVars, wavVars>>
    /\ ofdmPc = "frame"
    /\ fpc = "sym_set"
    /\ sub_i >= KeyedCount
    /\ OfdmBarrierWait(FALSE, 0)
    /\ UNCHANGED <<ofdm_argv, ofdmPc, ofdmExit, fstage, f_i, sub_i, symbols,
                   ofdm_running, transmitting, carriers, cancelReq,
                   ofdm_signalled, ofdm_ub>>

\* ofdm_transmitter.c:173
OfdmSymbolSleep ==
    /\ UNCHANGED <<mainVars, modVars, utilVars, wavVars>>
    /\ ofdmPc = "frame"
    /\ fpc = "sym_sleep"
    /\ sub_i' = 0
    /\ fpc' = "sym_clear"
    /\ UNCHANGED <<ofdm_argv, ofdmPc, ofdmExit, fstage, f_i, symbols,
                   ofdm_running, transmitting, start_barrier, sync_barrier,
                   carriers, opc, cancelReq, ofdm_signalled, ofdm_ub>>

\* ofdm_transmitter.c:176-178: one enable flag is cleared
OfdmSymbolClear ==
    /\ UNCHANGED <<mainVars, modVars, utilVars, wavVars>>
    /\ ofdmPc = "frame"
    /\ fpc = "sym_clear"
    /\ sub_i < num_subcarriers
    /\ transmitting' = [transmitting EXCEPT ![sub_i] = 0]
    /\ sub_i' = sub_i + 1
    /\ UNCHANGED <<ofdm_argv, ofdmPc, ofdmExit, fpc, fstage, f_i, symbols,
                   ofdm_running, start_barrier, sync_barrier, carriers, opc,
                   cancelReq, ofdm_signalled, ofdm_ub>>

\* ofdm_transmitter.c:181-182: the guard interval, the return, and the step of
\* the loop of transmit_ofdm_frame that made the call
OfdmSymbolGuard ==
    /\ UNCHANGED <<mainVars, modVars, utilVars, wavVars>>
    /\ ofdmPc = "frame"
    /\ fpc = "sym_clear"
    /\ sub_i >= num_subcarriers
    /\ LET afterPreamble ==
               IF Len(ofdm_argv.message) > 0 THEN "data" ELSE "eof_1"
       IN  CASE fstage = "preamble_aa" ->
                  fstage' = "preamble_55" /\ fpc' = "sym_call" /\ UNCHANGED f_i
             [] fstage = "preamble_55" ->
                  IF f_i + 1 < PREAMBLE_ROUNDS
                  THEN fstage' = "preamble_aa" /\ f_i' = f_i + 1 /\ fpc' = "sym_call"
                  ELSE fstage' = afterPreamble /\ f_i' = 0 /\ fpc' = "sym_call"
             [] fstage = "data" ->
                  IF f_i + 1 < Len(ofdm_argv.message)
                  THEN f_i' = f_i + 1 /\ fpc' = "sym_call" /\ UNCHANGED fstage
                  ELSE fstage' = "eof_1" /\ f_i' = 0 /\ fpc' = "sym_call"
             [] fstage = "eof_1" ->
                  fstage' = "eof_2" /\ fpc' = "sym_call" /\ UNCHANGED f_i
             [] fstage = "eof_2" ->
                  fstage' = "eof_3" /\ fpc' = "sym_call" /\ UNCHANGED f_i
             [] OTHER ->
                  fstage' = "cleanup" /\ fpc' = "stop" /\ UNCHANGED f_i
    /\ UNCHANGED <<ofdm_argv, ofdmPc, ofdmExit, sub_i, symbols, ofdm_running,
                   transmitting, start_barrier, sync_barrier, carriers, opc,
                   cancelReq, ofdm_signalled, ofdm_ub>>

\* ofdm_transmitter.c:224
OfdmStop ==
    /\ UNCHANGED <<mainVars, modVars, utilVars, wavVars>>
    /\ ofdmPc = "frame"
    /\ fpc = "stop"
    /\ ofdm_running' = 0
    /\ sub_i' = 0
    /\ fpc' = "cancel"
    /\ UNCHANGED <<ofdm_argv, ofdmPc, ofdmExit, fstage, f_i, symbols,
                   transmitting, start_barrier, sync_barrier, carriers, opc,
                   cancelReq, ofdm_signalled, ofdm_ub>>

\* ofdm_transmitter.c:249-250: pthread_cancel of one carrier thread, a deferred request
OfdmCancel ==
    /\ UNCHANGED <<mainVars, modVars, utilVars, wavVars>>
    /\ ofdmPc = "frame"
    /\ fpc = "cancel"
    /\ sub_i < num_subcarriers
    /\ cancelReq' = cancelReq \cup {sub_i + 1}
    /\ fpc' = "join"
    /\ UNCHANGED <<ofdm_argv, ofdmPc, ofdmExit, fstage, f_i, sub_i, symbols,
                   ofdm_running, transmitting, start_barrier, sync_barrier,
                   carriers, opc, ofdm_signalled, ofdm_ub>>

\* ofdm_transmitter.c:251: pthread_join returns once that thread has terminated
OfdmJoin ==
    /\ UNCHANGED <<mainVars, modVars, utilVars, wavVars>>
    /\ ofdmPc = "frame"
    /\ fpc = "join"
    /\ opc[sub_i + 1] \in {"done", "denied"}
    /\ sub_i' = sub_i + 1
    /\ fpc' = "cancel"
    /\ UNCHANGED <<ofdm_argv, ofdmPc, ofdmExit, fstage, f_i, symbols,
                   ofdm_running, transmitting, start_barrier, sync_barrier,
                   carriers, opc, cancelReq, ofdm_signalled, ofdm_ub>>

\* ofdm_transmitter.c:226-229, 323: both barriers are destroyed and main returns 0
OfdmDestroy ==
    /\ UNCHANGED <<mainVars, modVars, utilVars, wavVars>>
    /\ ofdmPc = "frame"
    /\ fpc = "cancel"
    /\ sub_i >= num_subcarriers
    /\ start_barrier' = NoBarrier
    /\ sync_barrier' = NoBarrier
    /\ fpc' = "done"
    /\ fstage' = "done"
    /\ ofdmPc' = "exit"
    /\ ofdmExit' = 0
    /\ UNCHANGED <<ofdm_argv, f_i, sub_i, symbols, ofdm_running, transmitting,
                   carriers, opc, cancelReq, ofdm_signalled, ofdm_ub>>

(***************************************************************************)
(* subcarrier_worker (ofdm_transmitter.c:66-129).                          *)
(***************************************************************************)
\* ofdm_transmitter.c:67-81: the affinity request, which the platform grants
\* or denies
SubAffinity(w) ==
    /\ UNCHANGED <<mainVars, modVars, utilVars, wavVars>>
    /\ ofdmPc = "frame"
    /\ opc[w] = "affinity"
    /\ \E granted \in BOOLEAN :
          opc' = [opc EXCEPT ![w] = IF granted THEN "wait_start" ELSE "denied"]
    /\ UNCHANGED <<ofdm_argv, ofdmPc, ofdmExit, fpc, fstage, f_i, sub_i,
                   symbols, ofdm_running, transmitting, start_barrier,
                   sync_barrier, carriers, cancelReq, ofdm_signalled, ofdm_ub>>

\* ofdm_transmitter.c:84
SubWaitStart(w) ==
    /\ UNCHANGED <<mainVars, modVars, utilVars, wavVars>>
    /\ ofdmPc = "frame"
    /\ opc[w] = "wait_start"
    /\ OfdmBarrierWait(TRUE, w)
    /\ UNCHANGED <<ofdm_argv, ofdmPc, ofdmExit, fstage, f_i, sub_i, symbols,
                   ofdm_running, transmitting, carriers, cancelReq,
                   ofdm_signalled, ofdm_ub>>

\* ofdm_transmitter.c:86
SubOuter(w) ==
    /\ UNCHANGED <<mainVars, modVars, utilVars, wavVars>>
    /\ ofdmPc = "frame"
    /\ opc[w] = "outer"
    /\ opc' = [opc EXCEPT ![w] = IF ofdm_running # 0 THEN "wait_sync" ELSE "done"]
    /\ UNCHANGED <<ofdm_argv, ofdmPc, ofdmExit, fpc, fstage, f_i, sub_i,
                   symbols, ofdm_running, transmitting, start_barrier,
                   sync_barrier, carriers, cancelReq, ofdm_signalled, ofdm_ub>>

\* ofdm_transmitter.c:88
SubWaitSync(w) ==
    /\ UNCHANGED <<mainVars, modVars, utilVars, wavVars>>
    /\ ofdmPc = "frame"
    /\ opc[w] = "wait_sync"
    /\ OfdmBarrierWait(FALSE, w)
    /\ UNCHANGED <<ofdm_argv, ofdmPc, ofdmExit, fstage, f_i, sub_i, symbols,
                   ofdm_running, transmitting, carriers, cancelReq,
                   ofdm_signalled, ofdm_ub>>

\* ofdm_transmitter.c:91-97: the enable flag of this subcarrier is read; a
\* keyed subcarrier computes its cycle, and a frequency of 0 makes that an
\* integer division by zero, which ends the process
SubCheckTx(w) ==
    /\ UNCHANGED <<mainVars, modVars, utilVars, wavVars>>
    /\ ofdmPc = "frame"
    /\ opc[w] = "check_tx"
    /\ IF transmitting[carriers[w].subcarrier_id] = 0
       THEN /\ opc' = [opc EXCEPT ![w] = "idle_sleep"]
            /\ UNCHANGED <<ofdmPc, ofdm_ub>>
       ELSE IF carriers[w].frequency = 0
       THEN /\ ofdm_ub' = ofdm_ub \cup {"division_by_zero"}
            /\ ofdmPc' = "crashed"
            /\ UNCHANGED opc
       ELSE /\ opc' = [opc EXCEPT ![w] = "tx_check"]
            /\ UNCHANGED <<ofdmPc, ofdm_ub>>
    /\ UNCHANGED <<ofdm_argv, ofdmExit, fpc, fstage, f_i, sub_i, symbols,
                   ofdm_running, transmitting, start_barrier, sync_barrier,
                   carriers, cancelReq, ofdm_signalled>>

\* ofdm_transmitter.c:93-94 and 105-107: the phase elapsed % cycle_nano, a
\* remainder of a non-negative elapsed time, is any of 0 .. |cycle_nano| - 1.
\* It is below half_cycle at some time when half_cycle is positive, and at
\* or above it at some time always
SubPhases(frequency) ==
    IF HalfCycleNano(CycleNano(frequency)) > 0
    THEN {"tx_high", "tx_low"} ELSE {"tx_low"}

\* ofdm_transmitter.c:99-107: the transmit loop goes on while the flag is set
\* and running; the phase read from the clock selects the half cycle.  A
\* frequency above NANO_PER_SECOND in magnitude has left cycle_nano 0, and
\* the remainder by it is an integer division by zero, which ends the process
SubTxCheck(w) ==
    /\ UNCHANGED <<mainVars, modVars, utilVars, wavVars>>
    /\ ofdmPc = "frame"
    /\ opc[w] = "tx_check"
    /\ IF transmitting[carriers[w].subcarrier_id] # 0 /\ ofdm_running # 0
       THEN IF CycleNano(carriers[w].frequency) = 0
            THEN /\ ofdm_ub' = ofdm_ub \cup {"division_by_zero"}
                 /\ ofdmPc' = "crashed"
                 /\ UNCHANGED opc
            ELSE /\ \E phase \in SubPhases(carriers[w].frequency) :
                        opc' = [opc EXCEPT ![w] = phase]
                 /\ UNCHANGED <<ofdmPc, ofdm_ub>>
       ELSE /\ opc' = [opc EXCEPT ![w] = "outer"]
            /\ UNCHANGED <<ofdmPc, ofdm_ub>>
    /\ UNCHANGED <<ofdm_argv, ofdmExit, fpc, fstage, f_i, sub_i,
                   symbols, ofdm_running, transmitting, start_barrier,
                   sync_barrier, carriers, cancelReq, ofdm_signalled>>

\* a worker that clears its own enable flag when its busy loop ends
SubTxHighClearsFlag(w) ==
    /\ UNCHANGED <<mainVars, modVars, utilVars, wavVars>>
    /\ ofdmPc = "frame"
    /\ opc[w] = "tx_high"
    /\ opc' = [opc EXCEPT ![w] = "tx_check"]
    /\ transmitting' = [transmitting EXCEPT ![carriers[w].subcarrier_id] = 0]
    /\ UNCHANGED <<ofdm_argv, ofdmPc, ofdmExit, fpc, fstage, f_i, sub_i,
                   symbols, ofdm_running, start_barrier, sync_barrier,
                   carriers, cancelReq, ofdm_signalled, ofdm_ub>>

\* ofdm_transmitter.c:109-115: the busy loop ends when the half cycle is over
\* or the flag is cleared
SubTxHigh(w) ==
    /\ UNCHANGED <<mainVars, modVars, utilVars, wavVars>>
    /\ ofdmPc = "frame"
    /\ opc[w] = "tx_high"
    /\ opc' = [opc EXCEPT ![w] = "tx_check"]
    /\ UNCHANGED <<ofdm_argv, ofdmPc, ofdmExit, fpc, fstage, f_i, sub_i,
                   symbols, ofdm_running, transmitting, start_barrier,
                   sync_barrier, carriers, cancelReq, ofdm_signalled, ofdm_ub>>

\* ofdm_transmitter.c:118-119: nanosleep returns
SubTxLow(w) ==
    /\ UNCHANGED <<mainVars, modVars, utilVars, wavVars>>
    /\ ofdmPc = "frame"
    /\ opc[w] = "tx_low"
    /\ opc' = [opc EXCEPT ![w] = "tx_check"]
    /\ UNCHANGED <<ofdm_argv, ofdmPc, ofdmExit, fpc, fstage, f_i, sub_i,
                   symbols, ofdm_running, transmitting, start_barrier,
                   sync_barrier, carriers, cancelReq, ofdm_signalled, ofdm_ub>>

\* ofdm_transmitter.c:124: usleep returns
SubIdleSleep(w) ==
    /\ UNCHANGED <<mainVars, modVars, utilVars, wavVars>>
    /\ ofdmPc = "frame"
    /\ opc[w] = "idle_sleep"
    /\ opc' = [opc EXCEPT ![w] = "outer"]
    /\ UNCHANGED <<ofdm_argv, ofdmPc, ofdmExit, fpc, fstage, f_i, sub_i,
                   symbols, ofdm_running, transmitting, start_barrier,
                   sync_barrier, carriers, cancelReq, ofdm_signalled, ofdm_ub>>

\* a pending cancellation request ends the thread at a cancellation point:
\* nanosleep (ofdm_transmitter.c:119) or usleep (ofdm_transmitter.c:124);
\* pthread_barrier_wait is none
SubCancelled(w) ==
    /\ UNCHANGED <<mainVars, modVars, utilVars, wavVars>>
    /\ ofdmPc = "frame"
    /\ w \in cancelReq
    /\ opc[w] \in {"tx_low", "idle_sleep"}
    /\ opc' = [opc EXCEPT ![w] = "done"]
    /\ UNCHANGED <<ofdm_argv, ofdmPc, ofdmExit, fpc, fstage, f_i, sub_i,
                   symbols, ofdm_running, transmitting, start_barrier,
                   sync_barrier, carriers, cancelReq, ofdm_signalled, ofdm_ub>>

(***************************************************************************)
(* signal_handler (ofdm_transmitter.c:258-261).                            *)
(***************************************************************************)
OfdmSignal ==
    /\ UNCHANGED <<mainVars, modVars, utilVars, wavVars>>
    /\ ofdmPc \in {"start", "frame"}
    /\ ofdm_running' = 0
    /\ ofdm_signalled' = TRUE
    /\ UNCHANGED <<ofdm_argv, ofdmPc, ofdmExit, fpc, fstage, f_i, sub_i,
                   symbols, transmitting, start_barrier, sync_barrier,
                   carriers, opc, cancelReq, ofdm_ub>>

OfdmController ==
    \/ OfdmMainStart
    \/ OfdmSetupInit
    \/ OfdmSetupSpawn
    \/ OfdmSetupWait
    \/ OfdmSymbolCall
    \/ OfdmSymbolSet
    \/ OfdmSymbolWait
    \/ OfdmSymbolSleep
    \/ OfdmSymbolClear
    \/ OfdmSymbolGuard
    \/ OfdmStop
    \/ OfdmCancel
    \/ OfdmJoin
    \/ OfdmDestroy

Subcarrier(w) ==
    \/ SubAffinity(w)
    \/ SubWaitStart(w)
    \/ SubOuter(w)
    \/ SubWaitSync(w)
    \/ SubCheckTx(w)
    \/ SubTxCheck(w)
    \/ SubTxHigh(w)
    \/ SubTxLow(w)
    \/ SubIdleSleep(w)
    \/ SubCancelled(w)

OfdmNext ==
    \/ OfdmController
    \/ \E w \in Subcarriers : Subcarrier(w)
    \/ OfdmSignal

(***************************************************************************)
(* modulation.c: checksum and line-code utilities.                         *)
(***************************************************************************)
\* modulation.c:14
CRC8_POLYNOMIAL == 7
\* modulation.c:17-18
PREAMBLE_LENGTH == 8
PAYLOAD_SIZE == 32

\* the bytes that buffers longer than one byte are filled with
ByteInputs == {0, 1, 170, 255}

\* the buffers a caller passes: every buffer of at most one byte and the
\* buffers of up to MaxDataLen bytes over ByteInputs
ModInputs ==
    {<< >>} \cup {<<b>> : b \in 0 .. 255}
            \cup UNION {[1 .. n -> ByteInputs] : n \in 2 .. MaxDataLen}

NoVerify == [called |-> FALSE, flip |-> -1, result |-> 0]
NoEncoded == [called |-> FALSE, output |-> << >>]
NoDecoded == [called |-> FALSE, status |-> 0, output |-> << >>]

ModInit(inputs) ==
    /\ mod_data \in inputs
    /\ mod_crc = -1
    /\ main_crc = -1
    /\ mod_verify = NoVerify
    /\ mod_encoded = NoEncoded
    /\ mod_decoded = NoDecoded

\* an inner loop that shifts right and tests the low bit
mod_crc8_shift_lsb(c) ==
    IF Bit(c, 0) = 1 THEN Xor8(c \div 2, CRC8_POLYNOMIAL) ELSE c \div 2

\* modulation.c:47-51, one iteration of the inner loop: crc is promoted to
\* int, shifted and XORed, and the result is truncated to uint8_t
mod_crc8_shift(c) ==
    IF Bit(c, 7) = 1 THEN XorBits(c * 2, CRC8_POLYNOMIAL, 9) % 256
    ELSE (c * 2) % 256

\* modulation.c:46-52, j iterations of the inner loop
RECURSIVE mod_crc8_shifts(_, _)
mod_crc8_shifts(c, j) ==
    IF j = 0 THEN c ELSE mod_crc8_shifts(mod_crc8_shift(c), j - 1)

\* modulation.c:43-53, the outer loop from byte i (1-based) on
RECURSIVE mod_crc8_from(_, _, _)
mod_crc8_from(c, data, i) ==
    IF i > Len(data) THEN c
    ELSE LET crc_i == mod_crc8_shifts(Xor8(c, data[i]), 8)
         IN  \* crc is a uint8_t; its value is settled before the next byte
             IF crc_i \in 0 .. 255 THEN mod_crc8_from(crc_i, data, i + 1)
             ELSE crc_i

\* modulation.c:40-56, calculate_crc8
modulation_calculate_crc8(data) == mod_crc8_from(0, data, 1)

\* a comparison of the low bit only
verify_crc8_low_bit(data, expected_crc) ==
    IF modulation_calculate_crc8(data) % 2 = expected_crc % 2 THEN 1 ELSE 0

\* modulation.c:61-64
verify_crc8(data, expected_crc) ==
    IF modulation_calculate_crc8(data) = expected_crc THEN 1 ELSE 0

\* a line code with the two symbols exchanged
manchester_symbol_inverted(bit) == IF bit # 0 THEN 1 ELSE 2

\* modulation.c:110-116, the two-bit symbol of one bit: 1 -> 0b10, 0 -> 0b01
manchester_symbol(bit) == IF bit # 0 THEN 2 ELSE 1

\* modulation.c:109-117, the loop over bit = 7 .. 0 from `bit` on; encoded is
\* a uint16_t
RECURSIVE manchester_encode_bits(_, _, _)
manchester_encode_bits(byte, bit, encoded) ==
    IF bit < 0 THEN encoded
    ELSE manchester_encode_bits(byte, bit - 1,
             ((encoded * 4) % 65536) + manchester_symbol(Bit(byte, bit)))

\* modulation.c:105-122, the loop over the input from byte i (1-based) on
RECURSIVE manchester_encode_from(_, _, _)
manchester_encode_from(input, i, output) ==
    IF i > Len(input) THEN output
    ELSE LET encoded == manchester_encode_bits(input[i], 7, 0)
         IN  manchester_encode_from(input, i + 1,
                 output \o <<(encoded \div 256) % 256, encoded % 256>>)

\* modulation.c:102-123: the bytes written to output
manchester_encode(input) == manchester_encode_from(input, 1, << >>)

\* a decoder that takes the symbol 11 for a 1
RECURSIVE manchester_decode_symbols_lenient(_, _, _)
manchester_decode_symbols_lenient(encoded, j, decoded) ==
    IF j >= 8 THEN decoded
    ELSE LET symbol == (encoded \div (2 ^ (14 - j * 2))) % 4
         IN  IF symbol >= 2
             THEN manchester_decode_symbols_lenient(encoded, j + 1,
                                                    ((decoded * 2) % 256) + 1)
             ELSE IF symbol = 1
             THEN manchester_decode_symbols_lenient(encoded, j + 1,
                                                    (decoded * 2) % 256)
             ELSE -1

\* modulation.c:140-151, the loop over the symbols j .. 7 of one 16-bit
\* group: the decoded byte, or -1 at the first invalid symbol
RECURSIVE manchester_decode_symbols(_, _, _)
manchester_decode_symbols(encoded, j, decoded) ==
    IF j >= 8 THEN decoded
    ELSE LET symbol == (encoded \div (2 ^ (14 - j * 2))) % 4
         IN  IF symbol = 2
             THEN manchester_decode_symbols(encoded, j + 1,
                                            ((decoded * 2) % 256) + 1)
             ELSE IF symbol = 1
             THEN manchester_decode_symbols(encoded, j + 1,
                                            (decoded * 2) % 256)
             ELSE -1

\* modulation.c:136-156, the loop over the input from byte i (1-based) on;
\* output holds the bytes written so far
RECURSIVE manchester_decode_from(_, _, _)
manchester_decode_from(input, i, output) ==
    IF i > Len(input) THEN [status |-> 0, output |-> output]
    ELSE LET encoded == input[i] * 256 + input[i + 1]
             decoded == manchester_decode_symbols(encoded, 0, 0)
         IN  IF decoded = -1 THEN [status |-> -1, output |-> output]
             ELSE manchester_decode_from(input, i + 2,
                                         Append(output, decoded))

\* modulation.c:128-157: the return value and the bytes written to output
manchester_decode(input) ==
    IF Len(input) % 2 # 0 THEN [status |-> -1, output |-> << >>]
    ELSE manchester_decode_from(input, 1, << >>)

\* the caller's buffer with bit p (bit p % 8 of byte p \div 8) inverted;
\* p = -1 leaves the buffer as it is
FlipBit(data, p) ==
    IF p < 0 THEN data
    ELSE [data EXCEPT ![(p \div 8) + 1] = Xor8(@, 2 ^ (p % 8))]

\* the caller calls calculate_crc8 of modulation.c on its buffer
ModCalculateCrc8 ==
    /\ mod_crc = -1
    /\ mod_crc' = modulation_calculate_crc8(mod_data)
    /\ UNCHANGED <<mainVars, ofdmVars, utilVars, wavVars, mod_data, main_crc, mod_verify,
                   mod_encoded, mod_decoded>>

\* the caller calls calculate_crc8 of main.c on its buffer
MainCalculateCrc8 ==
    /\ main_crc = -1
    /\ main_crc' = calculate_crc8(mod_data)
    /\ UNCHANGED <<mainVars, ofdmVars, utilVars, wavVars, mod_data, mod_crc, mod_verify,
                   mod_encoded, mod_decoded>>

\* the caller calls verify_crc8 with the checksum it obtained, on its buffer
\* as it is or with one bit inverted
ModVerifyCrc8 ==
    /\ mod_crc # -1
    /\ \E flip \in -1 .. 8 * Len(mod_data) - 1 :
          mod_verify' = [called |-> TRUE, flip |-> flip,
                         result |-> verify_crc8(FlipBit(mod_data, flip),
                                                mod_crc)]
    /\ UNCHANGED <<mainVars, ofdmVars, utilVars, wavVars, mod_data, mod_crc, main_crc,
                   mod_encoded, mod_decoded>>

\* the caller calls manchester_encode on its buffer
ModManchesterEncode ==
    /\ ~mod_encoded.called
    /\ mod_encoded' = [called |-> TRUE, output |-> manchester_encode(mod_data)]
    /\ UNCHANGED <<mainVars, ofdmVars, utilVars, wavVars, mod_data, mod_crc, main_crc,
                   mod_verify, mod_decoded>>

\* the caller calls manchester_decode on the encoder's output
ModManchesterDecode ==
    /\ mod_encoded.called
    /\ ~mod_decoded.called
    /\ mod_decoded' = [called |-> TRUE] @@ manchester_decode(mod_encoded.output)
    /\ UNCHANGED <<mainVars, ofdmVars, utilVars, wavVars, mod_data, mod_crc, main_crc,
                   mod_verify, mod_encoded>>

ModNext ==
    \/ ModCalculateCrc8
    \/ MainCalculateCrc8
    \/ ModVerifyCrc8
    \/ ModManchesterEncode
    \/ ModManchesterDecode

(***************************************************************************)
(* modulation.c: a caller of manchester_decode on a buffer of its own.     *)
(***************************************************************************)
\* a frame_t (modulation.c:31-35) that holds nothing
NoFrame == [preamble |-> << >>, payload |-> << >>, crc |-> 0]

NoUtilArg ==
    [fn |-> "none", n |-> 0, p |-> -1, data |-> << >>, frame |-> NoFrame]
NoReturn ==
    [calls |-> << >>, status |-> 0, value |-> 0, output |-> << >>,
     frame |-> NoFrame]

UtilInit(inputs) ==
    /\ util_arg \in inputs
    /\ util_ret = NoReturn

\* the buffer with its 2-bit symbol k (0-based, four symbols to a byte, the
\* most significant first) replaced by v
CorruptSymbol(bytes, k, v) ==
    LET shift == 2 ^ (2 * (3 - (k % 4)))
    IN  [bytes EXCEPT ![(k \div 4) + 1] =
            @ - ((@ \div shift) % 4) * shift + v * shift]

\* the buffers given to manchester_decode: the encoder's outputs, each of
\* them with one symbol replaced by 00 or by 11 or with its last byte
\* missing, and the buffers of ModInputs as they are
DecodeInputs ==
    LET enc == {manchester_encode(d) : d \in ModInputs}
    IN  enc \cup ModInputs
            \cup {CorruptSymbol(e, k, v) :
                     <<e, k, v>> \in {<<e, k, v>> \in enc \X (0 .. 4 * 2 * MaxDataLen - 1) \X {0, 3} :
                                         k < 4 * Len(e)}}
            \cup {SubSeq(e, 1, Len(e) - 1) : e \in enc \ {<< >>}}

DecodeArgs == {[NoUtilArg EXCEPT !.fn = "manchester_decode", !.data = b] :
                  b \in DecodeInputs}

\* the caller calls manchester_decode on its buffer
UtilManchesterDecode ==
    /\ util_arg.fn = "manchester_decode"
    /\ util_ret.calls = << >>
    /\ LET r == manchester_decode(util_arg.data)
       IN  util_ret' = [NoReturn EXCEPT !.calls = <<"manchester_decode">>,
                                        !.status = r.status,
                                        !.output = r.output]
    /\ UNCHANGED <<mainVars, ofdmVars, modVars, wavVars, util_arg>>

(***************************************************************************)
(* modulation.c: Hamming(7,4).                                             *)
(***************************************************************************)
\* modulation.c:163-180
hamming74_encode(data) ==
    LET d1 == Bit(data, 0)
        d2 == Bit(data, 1)
        d3 == Bit(data, 2)
        d4 == Bit(data, 3)
        p1 == (d1 + d2 + d4) % 2
        p2 == (d1 + d3 + d4) % 2
        p3 == (d2 + d3 + d4) % 2
    IN  p1 + 2 * p2 + 4 * d1 + 8 * p3 + 16 * d2 + 32 * d3 + 64 * d4

\* modulation.c:215, the four data bits of a code word
hamming74_data(encoded) ==
    8 * Bit(encoded, 6) + 4 * Bit(encoded, 5) + 2 * Bit(encoded, 4)
        + Bit(encoded, 2)

\* a decoder that returns the data bits as received
hamming74_decode_uncorrected(encoded) == hamming74_data(encoded)

\* modulation.c:186-216: the syndrome is the 1-based position of the bit in
\* error, 0 if there is none
hamming74_decode(encoded) ==
    LET p1 == Bit(encoded, 0)
        p2 == Bit(encoded, 1)
        d1 == Bit(encoded, 2)
        p3 == Bit(encoded, 3)
        d2 == Bit(encoded, 4)
        d3 == Bit(encoded, 5)
        d4 == Bit(encoded, 6)
        s1 == (p1 + d1 + d2 + d4) % 2
        s2 == (p2 + d1 + d3 + d4) % 2
        s3 == (p3 + d2 + d3 + d4) % 2
        syndrome == 4 * s3 + 2 * s2 + s1
    IN  IF syndrome # 0
        THEN hamming74_data(Xor8(encoded, 2 ^ (syndrome - 1)))
        ELSE hamming74_data(encoded)

\* every 4-bit value, sent as it is (p = -1) or with bit p of its code word
\* inverted
HammingArgs == {[NoUtilArg EXCEPT !.fn = "hamming74", !.n = n, !.p = p] :
                   <<n, p>> \in (0 .. 15) \X (-1 .. 6)}

\* the caller encodes its value
UtilHammingEncode ==
    /\ util_arg.fn = "hamming74"
    /\ util_ret.calls = << >>
    /\ util_ret' = [NoReturn EXCEPT !.calls = <<"hamming74_encode">>,
                                    !.value = hamming74_encode(util_arg.n)]
    /\ UNCHANGED <<mainVars, ofdmVars, modVars, wavVars, util_arg>>

\* the caller decodes the code word it obtained, with bit p inverted if
\* p >= 0; output keeps the word given to the decoder
UtilHammingDecode ==
    /\ util_arg.fn = "hamming74"
    /\ util_ret.calls = <<"hamming74_encode">>
    /\ LET received == IF util_arg.p < 0 THEN util_ret.value
                       ELSE Xor8(util_ret.value, 2 ^ util_arg.p)
       IN  util_ret' = [NoReturn EXCEPT
                           !.calls = <<"hamming74_encode", "hamming74_decode">>,
                           !.value = hamming74_decode(received),
                           !.output = <<received>>]
    /\ UNCHANGED <<mainVars, ofdmVars, modVars, wavVars, util_arg>>

(***************************************************************************)
(* modulation.c: Gray code.                                                *)
(***************************************************************************)
\* modulation.c:221-223
gray_encode(binary) == Xor8(binary, binary \div 2)

\* a decoder that folds in the first shift only
gray_decode_loop_once(gray, binary) ==
    IF gray \div 2 = 0 THEN binary ELSE Xor8(binary, gray \div 2)

\* modulation.c:231-233, while (gray >>= 1) binary ^= gray
RECURSIVE gray_decode_loop(_, _)
gray_decode_loop(gray, binary) ==
    IF gray \div 2 = 0 THEN binary
    ELSE gray_decode_loop(gray \div 2, Xor8(binary, gray \div 2))

\* modulation.c:228-236
gray_decode(gray) == gray_decode_loop(gray, gray)

GrayArgs == {[NoUtilArg EXCEPT !.fn = "gray", !.n = n] : n \in 0 .. 255}

\* the caller encodes its byte
UtilGrayEncode ==
    /\ util_arg.fn = "gray"
    /\ util_ret.calls = << >>
    /\ util_ret' = [NoReturn EXCEPT !.calls = <<"gray_encode">>,
                                    !.value = gray_encode(util_arg.n)]
    /\ UNCHANGED <<mainVars, ofdmVars, modVars, wavVars, util_arg>>

\* the caller decodes the code it obtained; output keeps that code
UtilGrayDecode ==
    /\ util_arg.fn = "gray"
    /\ util_ret.calls = <<"gray_encode">>
    /\ util_ret' = [NoReturn EXCEPT !.calls = <<"gray_encode", "gray_decode">>,
                                    !.value = gray_decode(util_ret.value),
                                    !.output = <<util_ret.value>>]
    /\ UNCHANGED <<mainVars, ofdmVars, modVars, wavVars, util_arg>>

(***************************************************************************)
(* modulation.c: create_frame.                                             *)
(***************************************************************************)
\* modulation.c:70-74
generate_preamble(length) ==
    [i \in 1 .. length |-> IF (i - 1) % 2 = 0 THEN 170 ELSE 85]

\* a create_frame without the memset of modulation.c:89
create_frame_no_memset(frame, data) ==
    IF Len(data) > PAYLOAD_SIZE THEN [status |-> -1, frame |-> frame]
    ELSE LET payload == [i \in 1 .. PAYLOAD_SIZE |->
                            IF i <= Len(data) THEN data[i]
                            ELSE frame.payload[i]]
         IN  [status |-> 0,
              frame  |-> [preamble |-> generate_preamble(PREAMBLE_LENGTH),
                          payload  |-> payload,
                          crc      |-> modulation_calculate_crc8(payload)]]

\* modulation.c:79-96: the return value and the frame after the call
create_frame(frame, data) ==
    IF Len(data) > PAYLOAD_SIZE THEN [status |-> -1, frame |-> frame]
    ELSE LET payload == [i \in 1 .. PAYLOAD_SIZE |->
                            IF i <= Len(data) THEN data[i] ELSE 0]
         IN  [status |-> 0,
              frame  |-> [preamble |-> generate_preamble(PREAMBLE_LENGTH),
                          payload  |-> payload,
                          crc      |-> modulation_calculate_crc8(payload)]]

\* what the caller's frame_t holds before the call
PriorFrames ==
    {[preamble |-> [i \in 1 .. PREAMBLE_LENGTH |-> b],
      payload  |-> [i \in 1 .. PAYLOAD_SIZE |-> b],
      crc      |-> b] : b \in {0, 255}}

\* the data given to create_frame: short buffers over ByteInputs, and
\* buffers one byte short of the payload, as long as it and one byte longer
FrameData ==
    UNION {[1 .. n -> ByteInputs] : n \in 0 .. MaxDataLen}
        \cup {[i \in 1 .. n |-> b] :
                 <<n, b>> \in (PAYLOAD_SIZE - 1 .. PAYLOAD_SIZE + 1) \X ByteInputs}
        \cup {[i \in 1 .. n |-> i] : n \in PAYLOAD_SIZE - 1 .. PAYLOAD_SIZE + 1}

FrameArgs ==
    {[NoUtilArg EXCEPT !.fn = "create_frame", !.data = d, !.frame = f] :
        <<d, f>> \in FrameData \X PriorFrames}

\* the caller calls create_frame on its frame_t and its data
UtilCreateFrame ==
    /\ util_arg.fn = "create_frame"
    /\ util_ret.calls = << >>
    /\ LET r == create_frame(util_arg.frame, util_arg.data)
       IN  util_ret' = [NoReturn EXCEPT !.calls = <<"create_frame">>,
                                        !.status = r.status,
                                        !.frame = r.frame]
    /\ UNCHANGED <<mainVars, ofdmVars, modVars, wavVars, util_arg>>

\* after a successful create_frame the caller calls verify_crc8 on the
\* payload and the checksum of the frame
UtilVerifyFrame ==
    /\ util_arg.fn = "create_frame"
    /\ util_ret.calls = <<"create_frame">>
    /\ util_ret.status = 0
    /\ util_ret' = [util_ret EXCEPT
                       !.calls = <<"create_frame", "verify_crc8">>,
                       !.value = verify_crc8(util_ret.frame.payload,
                                             util_ret.frame.crc)]
    /\ UNCHANGED <<mainVars, ofdmVars, modVars, wavVars, util_arg>>

\* main.c:232: the caller gives the same data to transmit_data_fsk, which
\* computes the CRC byte it transmits; output keeps that byte
UtilFskCrc ==
    /\ util_arg.fn = "create_frame"
    /\ util_ret.calls = <<"create_frame">>
    /\ util_ret.status = 0
    /\ util_ret' = [util_ret EXCEPT
                       !.calls = <<"create_frame", "transmit_data_fsk">>,
                       !.output = <<calculate_crc8(util_arg.data)>>]
    /\ UNCHANGED <<mainVars, ofdmVars, modVars, wavVars, util_arg>>

(***************************************************************************)
(* main.c: the cycle timings of generate_tone, for every frequency that    *)
(* validate_frequency accepts.                                             *)
(***************************************************************************)
TimingArgs ==
    {[NoUtilArg EXCEPT !.fn = "cycle_timings", !.n = f] :
        f \in {f \in MIN_FREQ - 1 .. MAX_FREQ + 1 : validate_frequency(f)}}

\* main.c:124-125: output keeps cycle_nano and half_cycle_nano
UtilCycleTimings ==
    /\ util_arg.fn = "cycle_timings"
    /\ util_ret.calls = << >>
    /\ util_ret' = [NoReturn EXCEPT
                       !.calls = <<"cycle_timings">>,
                       !.output = <<CycleNano(util_arg.n),
                                    HalfCycleNano(CycleNano(util_arg.n))>>]
    /\ UNCHANGED <<mainVars, ofdmVars, modVars, wavVars, util_arg>>

(***************************************************************************)
(* main.c: the control loop of a first generate_tone call, one statement   *)
(* at a time, when no signal arrives, every barrier is met by the workers  *)
(* and the clock moves only in nanosleep, by the interval asked or more.   *)
(* data is <<freq, duration_ms>>; calls keeps the statements of the cycle  *)
(* under way, output is <<now, LO>> with the clock 0 at start, value the   *)
(* number of cycles completed, status 1 at the loop test, 2 inside a cycle *)
(* and 3 after the loop.                                                   *)
(***************************************************************************)
ToneLoopInputs ==
    {<<1000, 10>>, <<1000, 0>>, <<MIN_FREQ, 1>>, <<MAX_FREQ, 2>>, <<23997, 500>>}

ToneLoopArgs ==
    {[NoUtilArg EXCEPT !.fn = "tone_loop", !.data = in] :
        in \in {in \in ToneLoopInputs : validate_frequency(in[1])}}

\* main.c:135-137: start is read once; LO still has its initial value
UtilToneStart ==
    /\ util_arg.fn = "tone_loop"
    /\ util_ret.status = 0
    /\ util_ret' = [NoReturn EXCEPT !.status = 1, !.output = <<0, 0>>]
    /\ UNCHANGED <<mainVars, ofdmVars, modVars, wavVars, util_arg>>

\* main.c:139-146: the clock is read at once or late, then tested
UtilToneLoop ==
    /\ util_arg.fn = "tone_loop"
    /\ util_ret.status = 1
    /\ \E late \in SleepLate(util_arg.data[2]) :
          util_ret' = [util_ret EXCEPT
                          !.calls = << >>,
                          !.output = <<util_ret.output[1] + late, util_ret.output[2]>>,
                          !.status = IF ElapsedReached(util_ret.output[1] + late - 0,
                                                       DurationNano(util_arg.data[2]))
                                     THEN 3 ELSE 2]
    /\ UNCHANGED <<mainVars, ofdmVars, modVars, wavVars, util_arg>>

\* main.c:149-161: the next statement of the cycle
UtilToneStep ==
    /\ util_arg.fn = "tone_loop"
    /\ util_ret.status = 2
    /\ \E late \in (IF Len(util_ret.calls) + 1 \in {3, 6}
                     THEN SleepLate(util_arg.data[2]) ELSE {0}) :
       LET at   == Len(util_ret.calls) + 1
           half == HalfCycleNano(CycleNano(util_arg.data[1]))
           now_ == util_ret.output[1]
           lo   == util_ret.output[2]
           stmt == CASE at = 1 -> [call |-> "LO = 0", out |-> <<now_, 0>>]
                     [] at = 2 -> [call |-> "barrier_lo", out |-> <<now_, lo>>]
                     [] at = 3 -> [call |-> "nanosleep",
                                   out |-> <<now_ + half + late, lo>>]
                     [] at = 4 -> [call |-> "LO = 1", out |-> <<now_, 1>>]
                     [] at = 5 -> [call |-> "barrier_hi", out |-> <<now_, lo>>]
                     [] at = 6 -> [call |-> "nanosleep",
                                   out |-> <<now_ + half + late, lo>>]
       IN  util_ret' = [util_ret EXCEPT
                           !.calls = Append(@, stmt.call),
                           !.output = stmt.out,
                           !.value = IF at = 6 THEN @ + 1 ELSE @,
                           !.status = IF at = 6 THEN 1 ELSE 2]
    /\ UNCHANGED <<mainVars, ofdmVars, modVars, wavVars, util_arg>>

(***************************************************************************)
(* wav_player.c: play_wav_am and play_wav_pwm, their worker threads and    *)
(* the signal handler.  The threads are "feeder", the thread that calls    *)
(* play_wav_*, and the workers 1 .. num_cores (workers[w - 1] in C).       *)
(* A duty cycle is kept in units of 1/327680, before rounding to a double. *)
(***************************************************************************)
NoWavArgs == [modulation |-> "none", num_cores |-> 0, sample_rate |-> 0, samples |-> << >>]

SampleInputs == {-32768, 0}

SamplesInputs ==
    {<<16384>>} \cup
    UNION {[1 .. n -> SampleInputs] : n \in 0 .. MaxSamples}

SampleRateInputs == {0, -5, 5, 8000}

WavArgs ==
    {[modulation |-> m, num_cores |-> c, sample_rate |-> r, samples |-> s] :
        m \in {"am", "pwm"}, c \in 1 .. MaxWorkers, r \in SampleRateInputs,
        s \in SamplesInputs}

\* wav_player.c:56-62; a field no statement has written yet is "unset"
NoWorker == [active |-> "unset", duty_cycle |-> "unset", frequency |-> "unset"]

WavInit(pc, inputs) ==
    /\ wav_argv \in inputs
    /\ playPc = pc
    /\ play_i = 0
    /\ play_j = 0
    /\ core_mutex = {}
    /\ wav_running = 1
    /\ wav_workers = [w \in Workers |-> NoWorker]
    /\ wav_wpc = [w \in Workers |-> "none"]
    /\ wav_cancelReq = {}
    /\ wav_signalled = FALSE

\* wav_player.c:248-253, numerator of the result over 327680
sample_to_duty_cycle(sample) == 65536 + 3 * (sample + 32768)

\* wav_player.c:258-265
sample_to_cores(sample, max_cores) ==
    LET abs_sample == IF sample < 0 THEN 0 - sample ELSE sample
        cores      == (abs_sample * max_cores) \div 32768
    IN  IF cores = 0 THEN 1
        ELSE IF cores > max_cores THEN max_cores ELSE cores

\* the lock kept until the sleep is over
PlayAfterUnlockLate(pc) ==
    CASE pc = "lock" -> "write"
      [] pc = "write" -> "progress"
      [] pc = "progress" -> "sleep"
      [] pc = "sleep" -> "unlock"
      [] pc = "unlock" -> "for"

\* wav_player.c:292-306 and 344-358: the statement that follows each
\* statement of the body of the sample loop
PlayAfter(pc) ==
    CASE pc = "lock" -> "write"
      [] pc = "write" -> "unlock"
      [] pc = "unlock" -> "progress"
      [] pc = "progress" -> "sleep"
      [] pc = "sleep" -> "for"

\* the for statement's i++ runs when the body is left
PlayGoto(pc) ==
    /\ playPc' = PlayAfter(pc)
    /\ play_i' = IF PlayAfter(pc) = "for" THEN play_i + 1 ELSE play_i

\* wav_player.c:275-280 and 326-332: one pass of the loop that creates the workers
PlaySpawn ==
    /\ playPc = "spawn"
    /\ play_i < wav_argv.num_cores
    /\ wav_workers' = [wav_workers EXCEPT ![play_i + 1] =
                           IF wav_argv.modulation = "am"
                           THEN [@ EXCEPT !.active = 0, !.frequency = 8000]
                           ELSE [active |-> 1, frequency |-> wav_argv.sample_rate,
                                 duty_cycle |-> 163840]]
    /\ wav_wpc' = [wav_wpc EXCEPT ![play_i + 1] = "start"]
    /\ play_i' = play_i + 1
    /\ UNCHANGED <<mainVars, ofdmVars, modVars, utilVars>>
    /\ UNCHANGED <<wav_argv, playPc, play_j, core_mutex, wav_running, wav_cancelReq,
                   wav_signalled>>

\* wav_player.c:283-284 and 335-336: NANO_PER_SECOND / sample_rate traps
\* when the sample rate of the file is 0
PlayPeriod ==
    /\ playPc = "spawn"
    /\ play_i >= wav_argv.num_cores
    /\ playPc' = IF wav_argv.sample_rate = 0 THEN "crashed" ELSE "for"
    /\ play_i' = 0
    /\ UNCHANGED <<mainVars, ofdmVars, modVars, utilVars>>
    /\ UNCHANGED <<wav_argv, play_j, core_mutex, wav_running, wav_workers, wav_wpc,
                   wav_cancelReq, wav_signalled>>

\* wav_player.c:287 and 339: the loop test
PlayFor ==
    /\ playPc = "for"
    /\ playPc' = IF play_i < Len(wav_argv.samples) /\ wav_running # 0
                 THEN "lock" ELSE "cleanup"
    /\ UNCHANGED <<mainVars, ofdmVars, modVars, utilVars>>
    /\ UNCHANGED <<wav_argv, play_i, play_j, core_mutex, wav_running, wav_workers,
                   wav_wpc, wav_cancelReq, wav_signalled>>

\* wav_player.c:292 and 344: pthread_mutex_lock returns once no thread holds the mutex
PlayLock ==
    /\ playPc = "lock"
    /\ core_mutex = {}
    /\ core_mutex' = core_mutex \cup {"feeder"}
    /\ play_j' = 0
    /\ PlayGoto("lock")
    /\ UNCHANGED <<mainVars, ofdmVars, modVars, utilVars>>
    /\ UNCHANGED <<wav_argv, wav_running, wav_workers, wav_wpc, wav_cancelReq,
                   wav_signalled>>

\* wav_player.c:293-295 and 345-347: one pass of the loop over the workers
PlayWrite ==
    /\ playPc = "write"
    /\ LET sample == wav_argv.samples[play_i + 1]
           active == sample_to_cores(sample, wav_argv.num_cores)
           duty   == sample_to_duty_cycle(sample)
       IN  wav_workers' = [wav_workers EXCEPT ![play_j + 1] =
                              IF wav_argv.modulation = "am"
                              THEN [@ EXCEPT !.active = IF play_j < active THEN 1 ELSE 0]
                              ELSE [@ EXCEPT !.duty_cycle = duty]]
    /\ play_j' = play_j + 1
    /\ IF play_j + 1 < wav_argv.num_cores
       THEN UNCHANGED <<playPc, play_i>>
       ELSE PlayGoto("write")
    /\ UNCHANGED <<mainVars, ofdmVars, modVars, utilVars>>
    /\ UNCHANGED <<wav_argv, core_mutex, wav_running, wav_wpc, wav_cancelReq,
                   wav_signalled>>

\* wav_player.c:296 and 348
PlayUnlock ==
    /\ playPc = "unlock"
    /\ core_mutex' = core_mutex \ {"feeder"}
    /\ PlayGoto("unlock")
    /\ UNCHANGED <<mainVars, ofdmVars, modVars, utilVars>>
    /\ UNCHANGED <<wav_argv, play_j, wav_running, wav_workers, wav_wpc, wav_cancelReq,
                   wav_signalled>>

\* wav_player.c:299-302 and 351-354: i % (sample_rate / 10) traps when the
\* sample rate is below 10
PlayProgress ==
    /\ playPc = "progress"
    /\ IF CDiv(wav_argv.sample_rate, 10) = 0
       THEN playPc' = "crashed" /\ UNCHANGED play_i
       ELSE PlayGoto("progress")
    /\ UNCHANGED <<mainVars, ofdmVars, modVars, utilVars>>
    /\ UNCHANGED <<wav_argv, play_j, core_mutex, wav_running, wav_workers, wav_wpc,
                   wav_cancelReq, wav_signalled>>

\* wav_player.c:305 and 357
PlaySleep ==
    /\ playPc = "sleep"
    /\ PlayGoto("sleep")
    /\ UNCHANGED <<mainVars, ofdmVars, modVars, utilVars>>
    /\ UNCHANGED <<wav_argv, play_j, core_mutex, wav_running, wav_workers, wav_wpc,
                   wav_cancelReq, wav_signalled>>

\* wav_player.c:311 and 363
PlayCleanup ==
    /\ playPc = "cleanup"
    /\ wav_running' = 0
    /\ play_i' = 0
    /\ playPc' = "cancel"
    /\ UNCHANGED <<mainVars, ofdmVars, modVars, utilVars>>
    /\ UNCHANGED <<wav_argv, play_j, core_mutex, wav_workers, wav_wpc, wav_cancelReq,
                   wav_signalled>>

\* wav_player.c:312-313 and 364-365
PlayCancel ==
    /\ playPc = "cancel"
    /\ IF play_i < wav_argv.num_cores
       THEN /\ wav_cancelReq' = wav_cancelReq \cup {play_i + 1}
            /\ playPc' = "join"
       ELSE /\ playPc' = "returned"
            /\ UNCHANGED wav_cancelReq
    /\ UNCHANGED <<mainVars, ofdmVars, modVars, utilVars>>
    /\ UNCHANGED <<wav_argv, play_i, play_j, core_mutex, wav_running, wav_workers,
                   wav_wpc, wav_signalled>>

\* wav_player.c:314 and 366
PlayJoin ==
    /\ playPc = "join"
    /\ wav_wpc[play_i + 1] = "done"
    /\ play_i' = play_i + 1
    /\ playPc' = "cancel"
    /\ UNCHANGED <<mainVars, ofdmVars, modVars, utilVars>>
    /\ UNCHANGED <<wav_argv, play_j, core_mutex, wav_running, wav_workers, wav_wpc,
                   wav_cancelReq, wav_signalled>>

Play ==
    \/ PlaySpawn
    \/ PlayPeriod
    \/ PlayFor
    \/ PlayLock
    \/ PlayWrite
    \/ PlayUnlock
    \/ PlayProgress
    \/ PlaySleep
    \/ PlayCleanup
    \/ PlayCancel
    \/ PlayJoin

WavProcessAlive == playPc \notin {"off", "returned", "crashed"}

WavWorkerGoto(w, pc) ==
    /\ wav_wpc' = [wav_wpc EXCEPT ![w] = pc]
    /\ UNCHANGED <<mainVars, ofdmVars, modVars, utilVars>>
    /\ UNCHANGED <<wav_argv, playPc, play_i, play_j, core_mutex, wav_running,
                   wav_workers, wav_cancelReq, wav_signalled>>

\* wav_player.c:156-160 and 207-211: the result of pthread_setaffinity_np is not read
WavWorkerStart(w) ==
    /\ WavProcessAlive
    /\ wav_wpc[w] = "start"
    /\ WavWorkerGoto(w, "while")

\* wav_player.c:162 and 213
WavWorkerWhile(w) ==
    /\ WavProcessAlive
    /\ wav_wpc[w] = "while"
    /\ WavWorkerGoto(w, IF wav_running # 0 THEN "if" ELSE "done")

\* wav_player.c:163 and 214: active and frequency are read without the mutex
WavWorkerIf(w) ==
    /\ WavProcessAlive
    /\ wav_wpc[w] = "if"
    /\ WavWorkerGoto(w, IF wav_workers[w].active # 0 /\ wav_workers[w].frequency > 0
                        THEN "tone" ELSE "usleep")

\* wav_player.c:164-193 and 215-236: one period of load; the sleeps in it
\* (usleep at 191, nanosleep at 235) are cancellation points
WavWorkerTone(w) ==
    /\ WavProcessAlive
    /\ wav_wpc[w] = "tone"
    /\ \/ WavWorkerGoto(w, "while")
       \/ w \in wav_cancelReq /\ WavWorkerGoto(w, "done")

\* wav_player.c:195 and 239: usleep is a cancellation point
WavWorkerUsleep(w) ==
    /\ WavProcessAlive
    /\ wav_wpc[w] = "usleep"
    /\ WavWorkerGoto(w, IF w \in wav_cancelReq THEN "done" ELSE "while")

WavWorker(w) ==
    \/ WavWorkerStart(w)
    \/ WavWorkerWhile(w)
    \/ WavWorkerIf(w)
    \/ WavWorkerTone(w)
    \/ WavWorkerUsleep(w)

\* wav_player.c:373-376
WavSignal ==
    /\ WavProcessAlive
    /\ ~wav_signalled
    /\ wav_signalled' = TRUE
    /\ wav_running' = 0
    /\ UNCHANGED <<mainVars, ofdmVars, modVars, utilVars>>
    /\ UNCHANGED <<wav_argv, playPc, play_i, play_j, core_mutex, wav_workers, wav_wpc,
                   wav_cancelReq>>

WavNext ==
    \/ Play
    \/ \E w \in Workers : WavWorker(w)
    \/ WavSignal

(***************************************************************************)
(* Specifications: main.c, ofdm_transmitter.c, either of the two, and the  *)
(* caller of modulation.c.                                                 *)
(***************************************************************************)
Init ==
    /\ MainInit("start", ArgvInputs)
    /\ OfdmInit("off", {NoOfdmArgs})
    /\ ModInit({<< >>})
    /\ UtilInit({NoUtilArg})
    /\ WavInit("off", {NoWavArgs})
Next == MainNext
Spec == Init /\ [][Next]_vars

InitOfdm ==
    /\ MainInit("off", {NoArgs})
    /\ OfdmInit("start", OfdmArgv)
    /\ ModInit({<< >>})
    /\ UtilInit({NoUtilArg})
    /\ WavInit("off", {NoWavArgs})
SpecOfdm == InitOfdm /\ [][OfdmNext]_vars

InitAll == Init \/ InitOfdm
NextAll == MainNext \/ OfdmNext
SpecAll == InitAll /\ [][NextAll]_vars

InitMod ==
    /\ MainInit("off", {NoArgs})
    /\ OfdmInit("off", {NoOfdmArgs})
    /\ ModInit(ModInputs)
    /\ UtilInit({NoUtilArg})
    /\ WavInit("off", {NoWavArgs})
SpecMod == InitMod /\ [][ModNext]_vars

UtilInputs ==
    DecodeArgs \cup HammingArgs \cup GrayArgs \cup FrameArgs \cup TimingArgs
        \cup ToneLoopArgs
UtilNext ==
    \/ UtilManchesterDecode
    \/ UtilHammingEncode
    \/ UtilHammingDecode
    \/ UtilGrayEncode
    \/ UtilGrayDecode
    \/ UtilCreateFrame
    \/ UtilVerifyFrame
    \/ UtilFskCrc
    \/ UtilCycleTimings
    \/ UtilToneStart
    \/ UtilToneLoop
    \/ UtilToneStep
InitUtil ==
    /\ MainInit("off", {NoArgs})
    /\ OfdmInit("off", {NoOfdmArgs})
    /\ ModInit({<< >>})
    /\ UtilInit(UtilInputs)
    /\ WavInit("off", {NoWavArgs})
SpecUtil == InitUtil /\ [][UtilNext]_vars

InitWav ==
    /\ MainInit("off", {NoArgs})
    /\ OfdmInit("off", {NoOfdmArgs})
    /\ ModInit({<< >>})
    /\ UtilInit({NoUtilArg})
    /\ WavInit("spawn", WavArgs)
SpecWav == InitWav /\ [][WavNext]_vars

(***************************************************************************)
(* Properties.                                                             *)
(***************************************************************************)
InRange(freq) == MIN_FREQ <= freq /\ freq <= MAX_FREQ
SpawnedWorkers == 1 .. spawn_i
Terminated(w) == wpc[w] \in {"none", "done", "denied"}

\* C1: in an FSK frame with no cancellation signal, every generate_tone call
\* (not only the first) returns only after bit_duration_ms has elapsed since
\* its start, having driven its workers through busy/idle cycles.
C1_EveryBitRunsItsDuration ==
    (mainPc = "fsk" /\ ctlPc = "returned" /\ ~signalled)
        => /\ now - start >= duration_nano
           /\ duration_nano > 0 => cycles > 0

\* the bits of a byte, most significant first
\* bit k (1 is first) of a frame: the preamble 10101010, the payload bytes and
\* the checksum c, each byte from bit 7 down to bit 0
FrameBit(msg, c, k) ==
    LET byte == IF k <= 8 THEN PREAMBLE
                ELSE IF k <= 8 + 8 * Len(msg) THEN msg[((k - 9) \div 8) + 1]
                ELSE c
    IN  Bit(byte, 7 - ((k - 1) % 8))

\* C2: transmit_data_fsk invokes generate_tone for the preamble bits
\* 1,0,1,0,1,0,1,0, then the payload bits MSB-first in payload order, then the
\* CRC-8 bits MSB-first, with freq_1 for a 1 and freq_0 for a 0 and duration
\* bit_duration_ms: the calls made so far are always a prefix of that sequence
\* and on return there have been exactly 8 + 8n + 8 (32 for 0x48,0x49, whose
\* CRC bits are those of 0x0B).
C2_FrameCallSequence ==
    argv.mode = "fsk" =>
        \A c \in {IF Len(calls) > 8 + 8 * Len(argv.message)
                  THEN calculate_crc8(argv.message) ELSE 0} :
            /\ Len(calls) <= 8 + 8 * Len(argv.message) + 8
            /\ \A k \in 1 .. Len(calls) :
                  calls[k] = [freq |-> IF FrameBit(argv.message, c, k) = 1
                                       THEN argv.freq_1 ELSE argv.freq_0,
                              duration_ms |-> argv.bit_duration_ms,
                              num_cores |-> argv.cores]
            /\ fskPc = "done" => Len(calls) = 8 + 8 * Len(argv.message) + 8
            /\ (fskPc = "done" /\ argv.message = <<72, 73>>) =>
                  /\ Len(calls) = 32
                  /\ \A k \in 1 .. 8 :
                        calls[24 + k].freq =
                            IF <<0, 0, 0, 0, 1, 0, 1, 1>>[k] = 1
                            THEN argv.freq_1 ELSE argv.freq_0

C2_Witness ==
    /\ fskPc = "done"
    /\ argv.message = <<72, 73>>
    /\ Len(calls) = 32
    /\ calls[9].freq = argv.freq_0
    /\ calls[10].freq = argv.freq_1

\* C3: once the signal handler has cleared running, the controller never
\* waits for good at a barrier: it is never blocked at a barrier with every
\* worker terminated or blocked as well.
C3_CancelledCallNeverStuckAtBarrier ==
    signalled =>
        ~(/\ ctlPc \in {"at_lo", "at_hi"}
          /\ \A w \in Workers : wpc[w] \in {"none", "done", "stuck", "at_lo", "at_hi"})

\* C4: when generate_tone returns, every worker it spawned has terminated.
C4_NoWorkerPastReturn ==
    ctlPc = "returned" => \A w \in Workers : Terminated(w)

\* C5: the step that leaves the frequency check of generate_tone accepts every
\* frequency in [20, 24000], and for any other frequency returns with running,
\* LO, cycle_nano, half_cycle_nano, both barriers and every worker untouched.
C5_FrequencyGate ==
    [][(ctlPc = "validate" /\ ctlPc' # "validate") =>
          IF InRange(gt.freq)
          THEN ctlPc' = "init"
          ELSE /\ ctlPc' = "returned"
               /\ ~bar_hi.inited /\ ~bar_lo.inited
               /\ UNCHANGED <<running, LO, cycle_nano, half_cycle_nano,
                               bar_hi, bar_lo, wpc, spawn_i, cycles>>]_vars

C5_Witness ==
    /\ mainPc = "tone"
    /\ ctlPc = "returned"
    /\ gt.freq = MAX_FREQ + 1
    /\ running = 1
    /\ ~bar_lo.inited
    /\ \A w \in Workers : wpc[w] = "none"

\* C6: a tone or fsk command with a unit count outside [1, 32] fails with no
\* side effect: generate_tone is never called, no barrier is initialised, no
\* worker is spawned, no phase loop runs, and the exit code is 1.
C6_UnitCountGate ==
    (argv.mode \in {"tone", "fsk"} /\ (argv.cores < 1 \/ argv.cores > MAX_CORES)) =>
        /\ calls = << >>
        /\ ctlPc = "idle"
        /\ ~bar_hi.inited /\ ~bar_lo.inited
        /\ \A w \in Workers : wpc[w] = "none"
        /\ cycles = 0
        /\ LO = 0
        /\ mainPc = "exit" => exitCode = 1

C6_Witness ==
    /\ mainPc = "exit"
    /\ argv.mode = "tone"
    /\ argv.argc = 5
    /\ InRange(argv.freq)
    /\ argv.cores = MAX_CORES + 1
    /\ exitCode = 1
    /\ calls = << >>

\* C7: a generate_tone call with duration 0 ms spawns no worker thread.
C7_ZeroDurationSpawnsNothing ==
    (ctlPc # "idle" /\ gt.duration_ms = 0) => spawn_i = 0

\* C8: an fsk command with freq_0 or freq_1 outside [20, 24000] transmits no
\* bit at all, also none whose own frequency is valid: generate_tone is never
\* called and the frame is never started.
C8_FskFrequenciesPreflight ==
    (argv.mode = "fsk" /\ (~InRange(argv.freq_0) \/ ~InRange(argv.freq_1))) =>
        /\ calls = << >>
        /\ fskPc = "idle"
        /\ ctlPc = "idle"
        /\ ~bar_hi.inited /\ ~bar_lo.inited
        /\ \A w \in Workers : wpc[w] = "none"
        /\ mainPc = "exit" => exitCode = 1

C8_Witness ==
    /\ mainPc = "exit"
    /\ argv.mode = "fsk"
    /\ argv.argc = 7
    /\ InRange(argv.freq_0)
    /\ ~InRange(argv.freq_1)
    /\ CoresOk(argv.cores)
    /\ Len(argv.message) > 0
    /\ calls = << >>

\* C9: a worker is in its HIGH (busy) phase only while every worker of the
\* call has left the LOW phase of the previous cycle and passed the low-phase
\* barrier, and a worker enters its LOW phase only in a step in which the
\* controller has already set the phase flag (LO = 1) and is at or past the
\* high-phase barrier.
C9_PhaseOrder ==
    /\ [](\A w \in Workers :
            wpc[w] = "hi_loop" =>
                /\ gt.num_cores = spawn_i
                /\ \A v \in SpawnedWorkers : wpc[v] \in {"hi_loop", "wait_hi", "at_hi"})
    /\ [][\A w \in Workers :
            (wpc'[w] = "lo_loop" /\ wpc[w] # "lo_loop") =>
                /\ LO = 1
                /\ ctlPc \in {"wait_hi", "at_hi"}
                /\ ctlPc' = "sleep_b"
                /\ \A v \in SpawnedWorkers : wpc'[v] = "lo_loop"]_vars

C9_Witness ==
    /\ gt.num_cores = 2
    /\ cycles >= 1
    /\ wpc[1] = "hi_loop"
    /\ wpc[2] = "wait_hi"
    /\ ~signalled

\* worker w of the current generate_tone call passes the lo (hi) barrier
PassesLo(w) == wpc[w] \in {"wait_lo", "at_lo"} /\ wpc'[w] = "hi_loop"
PassesHi(w) == wpc[w] \in {"wait_hi", "at_hi"} /\ wpc'[w] = "lo_loop"

\* the controller of generate_tone passes the lo (hi) barrier
ControllerPassesLo == ctlPc \in {"wait_lo", "at_lo"} /\ ctlPc' = "sleep_a"
ControllerPassesHi == ctlPc \in {"wait_hi", "at_hi"} /\ ctlPc' = "sleep_b"

\* the worker of subcarrier w - 1 passes the start (sync) barrier
PassesStart(w) == opc[w] \in {"wait_start", "at_start"} /\ opc'[w] = "outer"
PassesSync(w) == opc[w] \in {"wait_sync", "at_sync"} /\ opc'[w] = "check_tx"

\* the controller of the OFDM frame passes the start (sync) barrier
ControllerPassesStart == fpc \in {"setup_spawn", "at_start"} /\ fpc' = "sym_call"
ControllerPassesSync == fpc \in {"sym_set", "at_sync"} /\ fpc' = "sym_sleep"

\* C10: both barriers of a generate_tone call and both barriers of an OFDM
\* frame exist only with a party count of the number of workers plus one, and
\* whenever any thread passes one of these barriers, the controller and every
\* one of the N workers of that call pass it in the same release, and no
\* thread of an earlier call is the arrival that completes it.
C10_PartyCountAndFullRelease ==
    /\ [](/\ bar_hi.inited => bar_hi.count = gt.num_cores + 1
          /\ bar_lo.inited => bar_lo.count = gt.num_cores + 1
          /\ start_barrier.inited => start_barrier.count = num_subcarriers + 1
          /\ sync_barrier.inited => sync_barrier.count = num_subcarriers + 1)
    /\ [][/\ (ControllerPassesLo \/ \E w \in Workers : PassesLo(w)) =>
                /\ ControllerPassesLo
                /\ \A w \in 1 .. gt.num_cores : PassesLo(w)
                /\ stale' = stale
          /\ (ControllerPassesHi \/ \E w \in Workers : PassesHi(w)) =>
                /\ ControllerPassesHi
                /\ \A w \in 1 .. gt.num_cores : PassesHi(w)
          /\ (ControllerPassesStart \/ \E w \in Subcarriers : PassesStart(w)) =>
                /\ ControllerPassesStart
                /\ \A w \in 1 .. num_subcarriers : PassesStart(w)
          /\ (ControllerPassesSync \/ \E w \in Subcarriers : PassesSync(w)) =>
                /\ ControllerPassesSync
                /\ \A w \in 1 .. num_subcarriers : PassesSync(w)]_vars

C10_Witness ==
    /\ num_subcarriers = 2
    /\ sync_barrier.inited
    /\ sync_barrier.count = 3
    /\ sync_barrier.in = 0
    /\ Len(symbols) >= 2
    /\ fpc = "sym_sleep"
    /\ opc[1] = "check_tx"
    /\ opc[2] = "check_tx"


\* C11: the phase flag LO and the enable flags transmitting[] are written by
\* the controller only: no step of a worker_routine thread (one of this call
\* or one left over from an earlier call) changes LO, and no step of a
\* subcarrier_worker thread changes transmitting.
C11_FlagsWrittenByControllerOnly ==
    [][/\ LO' # LO => ~((\E w \in Workers : Worker(w)) \/ Stale)
       /\ transmitting' # transmitting =>
             ~(\E w \in Subcarriers : Subcarrier(w))]_vars

C11_Witness ==
    /\ transmitting[0] = 1
    /\ transmitting[1] = 0
    /\ opc[1] = "tx_high"
    /\ opc[2] = "idle_sleep"


\* C12: a worker whose affinity request is denied keeps taking part in the
\* phase loop, so the call completes: in a run with no signal the controller
\* never waits at the low-phase barrier of generate_tone, or at the start
\* barrier of the OFDM frame, for a worker that has already terminated.
C12_DeniedAffinityKeepsWorker ==
    /\ (~signalled /\ ctlPc = "at_lo") =>
          \A w \in 1 .. gt.num_cores : wpc[w] # "denied"
    /\ (~ofdm_signalled /\ fpc = "at_start") =>
          \A w \in 1 .. num_subcarriers : opc[w] # "denied"


\* the frame has made its last transmit_ofdm_symbol call and that call returned
OfdmFrameSent == fstage \in {"cleanup", "done"}

\* C13 (as stated): the symbols of a frame are the 4-symbol preamble
\* 0xAA,0x55,0xAA,0x55, the payload bytes in order and the end marker
\* 0xFF,0x00,0xFF: the symbols sent so far are a prefix of that sequence and
\* there are exactly 4 + n + 3 of them once the last one is sent.
C13_FrameSymbolsFourPreamble ==
    \A expected \in {<<170, 85, 170, 85>> \o ofdm_argv.message \o <<255, 0, 255>>} :
        /\ Len(symbols) <= Len(expected)
        /\ \A k \in 1 .. Len(symbols) : symbols[k] = expected[k]
        /\ OfdmFrameSent => Len(symbols) = 4 + Len(ofdm_argv.message) + 3

\* C13 (amended): the preamble has 8 symbols, 0xAA,0x55 four times; the frame
\* is that preamble, one symbol per payload byte in payload order and the end
\* marker 0xFF,0x00,0xFF, with no checksum symbol: 8 + n + 3 symbols.
C13_FrameSymbols ==
    \A expected \in {<<170, 85, 170, 85, 170, 85, 170, 85>> \o ofdm_argv.message
                        \o <<255, 0, 255>>} :
        /\ Len(symbols) <= Len(expected)
        /\ \A k \in 1 .. Len(symbols) : symbols[k] = expected[k]
        /\ OfdmFrameSent => Len(symbols) = 8 + Len(ofdm_argv.message) + 3

C13_Witness ==
    /\ OfdmFrameSent
    /\ ofdm_argv.message = <<72, 73>>
    /\ Len(symbols) = 13
    /\ symbols[9] = 72
    /\ symbols[10] = 73
    /\ symbols[13] = 255


\* the symbol of the latest transmit_ofdm_symbol call
LastSymbol == symbols[Len(symbols)]

\* the worker of subcarrier w - 1 is in its transmit loop (ofdm_transmitter.c:99-121)
InTransmitLoop(w) == opc[w] \in {"tx_check", "tx_high", "tx_low"}

\* the worker of subcarrier w - 1 has found its flag clear and idles or waits
\* for the next symbol (ofdm_transmitter.c:124, 86, 88)
Unkeyed(w) == opc[w] \in {"idle_sleep", "outer", "wait_sync", "at_sync"}

\* C14: for every symbol s, (a) in the step that releases the sync barrier
\* transmitting[i] is bit i of s for every i < num_subcarriers; (b) while the
\* controller sleeps for the symbol duration and no signal has arrived, a
\* worker is in its transmit loop only if its bit of s is 1 and has found its
\* flag clear only if its bit is 0; (c) once the flags are cleared, all of
\* them are 0 through the guard interval, until the next symbol is set.
C14_SymbolKeying ==
    /\ [][ControllerPassesSync =>
            \A i \in 0 .. num_subcarriers - 1 :
                transmitting'[i] = Bit(LastSymbol, i)]_vars
    /\ []((fpc = "sym_sleep" /\ ~ofdm_signalled) =>
            \A w \in 1 .. num_subcarriers :
                /\ InTransmitLoop(w) => Bit(LastSymbol, w - 1) = 1
                /\ Unkeyed(w) => Bit(LastSymbol, w - 1) = 0)
    /\ []((fpc = "sym_clear" /\ sub_i >= num_subcarriers) =>
            \A i \in 0 .. MAX_SUBCARRIERS - 1 : transmitting[i] = 0)

C14_Witness ==
    /\ fpc = "sym_sleep"
    /\ ~ofdm_signalled
    /\ num_subcarriers = 2
    /\ LastSymbol = 85
    /\ transmitting[0] = 1
    /\ transmitting[1] = 0
    /\ opc[1] = "tx_high"
    /\ opc[2] = "idle_sleep"


\* C15: once running has been cleared during transmit_ofdm_frame the call
\* still returns: the controller is never blocked at the sync barrier while
\* a worker it waits for has already exited.
C15_CancelledFrameNeverStuckAtSync ==
    fpc = "at_sync" => \A w \in 1 .. num_subcarriers : opc[w] # "done"


\* C16: with no signal the teardown of transmit_ofdm_frame completes: the
\* controller never waits in pthread_join for a worker that is blocked at
\* the sync barrier.
C16_TeardownNeverJoinsBlockedWorker ==
    (~ofdm_signalled /\ fpc = "join") => opc[sub_i + 1] # "at_sync"


\* C17: a frame of transmit_data_fsk whose cancellation flag is cleared
\* aborts to DONE, that is, the call returns: after a signal the frame is
\* never left with its controller blocked at a barrier of generate_tone and
\* every worker of that call terminated.
C17_CancelledFrameReachesDone ==
    (mainPc = "fsk" /\ signalled) =>
        ~(/\ ctlPc \in {"at_lo", "at_hi"}
          /\ StaleCount = 0
          /\ \A w \in 1 .. gt.num_cores : wpc[w] = "done")


\* the bits of a byte sequence, the most significant bit of the first byte
\* first
RECURSIVE MessageBits(_)
MessageBits(data) ==
    IF data = << >> THEN << >>
    ELSE [k \in 1 .. 8 |-> Bit(Head(data), 8 - k)] \o MessageBits(Tail(data))

\* the number a sequence of bits denotes, the most significant bit first
RECURSIVE BitsValue(_)
BitsValue(bits) ==
    IF bits = << >> THEN 0
    ELSE 2 * BitsValue(SubSeq(bits, 1, Len(bits) - 1)) + bits[Len(bits)]

\* the coefficients of the generator x^8 + x^2 + x + 1 (polynomial 0x07),
\* the highest power first
Generator == <<1>> \o [k \in 1 .. 8 |-> Bit(7, 8 - k)]

\* long division over GF(2) from position i on: wherever the leading
\* coefficient is 1 the generator is subtracted
RECURSIVE LongDivision(_, _)
LongDivision(bits, i) ==
    IF i > Len(bits) - 8 THEN bits
    ELSE LongDivision(
            IF bits[i] = 1
            THEN [k \in 1 .. Len(bits) |->
                    IF k >= i /\ k <= i + 8
                    THEN (bits[k] + Generator[k - i + 1]) % 2
                    ELSE bits[k]]
            ELSE bits,
            i + 1)

\* the remainder of the message, followed by eight zero bits, divided by the
\* generator
CrcRemainder(data) ==
    LET r == LongDivision(MessageBits(data) \o [k \in 1 .. 8 |-> 0], 1)
    IN  BitsValue(SubSeq(r, Len(r) - 7, Len(r)))

\* C18: both copies of calculate_crc8 return, for every byte sequence, the
\* remainder of the MSB-first CRC-8 division with polynomial 0x07 and initial
\* value 0x00; the two copies agree, and the CRC of the empty sequence is 0.
C18_Crc8IsPolynomialRemainder ==
    /\ mod_crc # -1 => mod_crc = CrcRemainder(mod_data)
    /\ main_crc # -1 => main_crc = CrcRemainder(mod_data)
    /\ (mod_crc # -1 /\ main_crc # -1) => mod_crc = main_crc
    /\ mod_data = << >> => (mod_crc \in {-1, 0} /\ main_crc \in {-1, 0})

C18_Witness ==
    /\ mod_data = <<1, 0>>
    /\ mod_crc = 21
    /\ main_crc = 21


\* C19: verify_crc8 accepts a buffer with the checksum calculate_crc8 returned
\* for it, and rejects, with that unmodified checksum, the buffer with any
\* single bit inverted.
C19_VerifyDetectsSingleBitErrors ==
    mod_verify.called =>
        /\ mod_crc = modulation_calculate_crc8(mod_data)
        /\ mod_verify.flip = -1 => mod_verify.result = 1
        /\ mod_verify.flip # -1 => mod_verify.result = 0

C19_Witness ==
    /\ mod_data = <<1, 0>>
    /\ mod_verify.called
    /\ mod_verify.flip = 9
    /\ mod_verify.result = 0


\* the two bits that stand for bit 7 - k of byte i of the input in a
\* Manchester-coded buffer, the most significant bit of each byte first
SymbolAt(output, i, k) ==
    SubSeq(MessageBits(output), 16 * (i - 1) + 2 * k + 1,
                                16 * (i - 1) + 2 * k + 2)

\* C20: manchester_encode writes exactly 2 * len(x) bytes in which every bit
\* 0 of x is the symbol 01 and every bit 1 the symbol 10, MSB first, and
\* manchester_decode of that output returns 0 and yields x.
C20_ManchesterRoundTrip ==
    /\ mod_encoded.called =>
          /\ Len(mod_encoded.output) = 2 * Len(mod_data)
          /\ \A i \in 1 .. Len(mod_data) : \A k \in 0 .. 7 :
                SymbolAt(mod_encoded.output, i, k) =
                    IF Bit(mod_data[i], 7 - k) = 1 THEN <<1, 0>> ELSE <<0, 1>>
    /\ mod_decoded.called =>
          /\ mod_decoded.status = 0
          /\ mod_decoded.output = mod_data

C20_Witness ==
    /\ mod_data = <<170, 1>>
    /\ mod_encoded.output = <<153, 153, 85, 86>>
    /\ mod_decoded.called
    /\ mod_decoded.status = 0
    /\ mod_decoded.output = <<170, 1>>


\* the 2-bit symbols of a buffer in order, four to a byte, each as a pair of
\* bits
Symbols(bytes) ==
    [k \in 1 .. 4 * Len(bytes) |->
        SubSeq(MessageBits(bytes), 2 * k - 1, 2 * k)]

WellFormed(bytes) ==
    /\ Len(bytes) % 2 = 0
    /\ \A k \in 1 .. 4 * Len(bytes) : Symbols(bytes)[k] \in {<<0, 1>>, <<1, 0>>}

\* C21: manchester_decode returns -1 for every input of odd length and for
\* every even-length input with a symbol 00 or 11 at any position, and
\* returns 0 only when every symbol is 01 or 10.
C21_DecodeRejectsMalformedInput ==
    util_ret.calls = <<"manchester_decode">> =>
        /\ ~WellFormed(util_arg.data) => util_ret.status = -1
        /\ util_ret.status = 0 => WellFormed(util_arg.data)
        /\ util_ret.status \in {0, -1}

C21_Witness ==
    /\ util_ret.calls = <<"manchester_decode">>
    /\ util_arg.data = <<153, 155>>
    /\ util_ret.status = -1


\* C22: for every 4-bit value n, hamming74_decode(hamming74_encode(n)) = n,
\* and the decoder returns n as well when any one of the seven bits of the
\* code word is inverted.
C22_HammingCorrectsSingleErrors ==
    util_ret.calls = <<"hamming74_encode", "hamming74_decode">> =>
        util_ret.value = util_arg.n

\* n = 11 (d1 d2 d4 set) has the code word 0x55; bit 6 (d4) is inverted
C22_Witness ==
    /\ util_ret.calls = <<"hamming74_encode", "hamming74_decode">>
    /\ util_arg.n = 11
    /\ util_arg.p = 6
    /\ util_ret.output = <<21>>
    /\ util_ret.value = 11


\* C23: for every byte n, gray_encode(n) is n XOR (n >> 1), that is bit i of
\* the code is bit i of n plus bit i + 1 of n modulo 2, and
\* gray_decode(gray_encode(n)) = n.
C23_GrayRoundTrip ==
    /\ util_ret.calls = <<"gray_encode">> =>
          /\ util_ret.value \in 0 .. 255
          /\ \A i \in 0 .. 7 :
                Bit(util_ret.value, i) =
                    (Bit(util_arg.n, i) + Bit(util_arg.n, i + 1)) % 2
    /\ util_ret.calls = <<"gray_encode", "gray_decode">> =>
          util_ret.value = util_arg.n

C23_Witness ==
    /\ util_ret.calls = <<"gray_encode", "gray_decode">>
    /\ util_arg.n = 200
    /\ util_ret.output = <<172>>
    /\ util_ret.value = 200


\* C24: create_frame with more than 32 bytes of data returns -1 and leaves
\* the frame as it was; with at most 32 bytes it returns 0, stores the data
\* followed by zeros up to 32 bytes as payload, and stores a checksum that
\* verify_crc8 accepts for exactly the stored 32-byte payload.
C24_CreateFrameContract ==
    /\ (util_ret.calls # << >> /\ util_ret.calls[1] = "create_frame") =>
          LET n == Len(util_arg.data)
          IN  /\ n > 32 => /\ util_ret.status = -1
                           /\ util_ret.frame = util_arg.frame
              /\ n <= 32 => /\ util_ret.status = 0
                            /\ Len(util_ret.frame.payload) = 32
                            /\ \A i \in 1 .. 32 :
                                  util_ret.frame.payload[i] =
                                      IF i <= n THEN util_arg.data[i] ELSE 0
    /\ util_ret.calls = <<"create_frame", "verify_crc8">> => util_ret.value = 1

C24_Witness ==
    /\ util_ret.calls = <<"create_frame", "verify_crc8">>
    /\ util_arg.data = <<1, 255>>
    /\ util_arg.frame.payload[32] = 255
    /\ util_ret.frame.payload[2] = 255
    /\ util_ret.frame.payload[32] = 0
    /\ util_ret.value = 1


\* the command line of main.c fails argument validation: too few or too many
\* arguments, an unknown subcommand, a unit count outside 1 .. MAX_CORES or
\* a frequency outside MIN_FREQ .. MAX_FREQ
ArgumentsInvalid(a) ==
    \/ a.argc < 2
    \/ a.mode \notin {"tone", "fsk"}
    \/ a.mode = "tone" /\ (a.argc # 5 \/ a.cores < 1 \/ a.cores > MAX_CORES
                           \/ ~InRange(a.freq))
    \/ a.mode = "fsk" /\ (a.argc # 7 \/ a.cores < 1 \/ a.cores > MAX_CORES
                          \/ ~InRange(a.freq_0) \/ ~InRange(a.freq_1))

\* C25: main exits with code 1 whenever argument validation fails, the tone
\* subcommand with an out-of-range frequency included, and with code 0 only
\* after a successful run.
C25_ValidationFailureExitsOne ==
    mainPc = "exit" =>
        /\ ArgumentsInvalid(argv) => exitCode = 1
        /\ exitCode = 0 => ~ArgumentsInvalid(argv)


\* the record setup_ofdm_carriers assigns to subcarrier i (0-based)
\* a number as its multiple of 65536 and the rest, so that sums beyond the
\* range of int can be compared
High16(x) == x \div 65536
Low16(x) == x % 65536

\* f is the number base + i * spacing, for 0 <= i <= MAX_SUBCARRIERS
IsBasePlusSpacing(f, base, i, spacing) ==
    LET low  == Low16(base) + i * Low16(spacing)
        high == High16(base) + i * High16(spacing)
    IN  /\ High16(f) = high + High16(low)
        /\ Low16(f) = Low16(low)

\* C26: from its creation on, subcarrier i has the frequency
\* base_freq + i * freq_spacing and the core i; no step of the frame (no
\* symbol transmission, no worker step) changes the record of a created
\* subcarrier, and distinct subcarriers have distinct cores.
C26_CarrierAssignmentIsPermanent ==
    /\ [](\A w \in Subcarriers :
             opc[w] # "none" =>
                /\ carriers[w].core_id = w - 1
                /\ carriers[w].subcarrier_id = w - 1
                /\ IsBasePlusSpacing(carriers[w].frequency, ofdm_argv.base_freq,
                                     w - 1, ofdm_argv.freq_spacing)
                /\ \A v \in Subcarriers :
                      (opc[v] # "none" /\ v # w) =>
                          carriers[v].core_id # carriers[w].core_id)
    /\ [][\A w \in Subcarriers :
             opc[w] # "none" => carriers'[w] = carriers[w]]_vars


\* C27: without cancellation, a worker that was keyed on is back at the sync
\* barrier before the flags of the next symbol are set, so the controller's
\* barrier wait completes: the controller never waits at the sync barrier
\* while a worker with an allowed frequency is still in the transmit loop of
\* the previous symbol with its flag set again.
C27_KeyedWorkerReturnsToSync ==
    (~ofdm_signalled /\ fpc = "at_sync") =>
        \A w \in 1 .. num_subcarriers :
            ~(/\ InRange(carriers[w].frequency)
              /\ InTransmitLoop(w)
              /\ transmitting[carriers[w].subcarrier_id] = 1)


\* C28: for every frequency f in [20, 24000], cycle_nano is the floor of
\* 1000000000 / f and half_cycle_nano the floor of cycle_nano / 2, with
\* 0 < half_cycle_nano < 1000000000, and every value fits a long.
C28_CycleTimings ==
    util_ret.calls = <<"cycle_timings">> =>
        LET f     == util_arg.n
            cycle == util_ret.output[1]
            half  == util_ret.output[2]
        IN  /\ f \in 20 .. 24000
            /\ cycle * f <= 1000000000
            /\ 1000000000 - cycle * f < f
            /\ 2 * half <= cycle
            /\ cycle - 2 * half < 2
            /\ 0 < half
            /\ half < 1000000000
            \* even a long of 32 bits, the narrowest the C standard allows
            /\ cycle \in 0 .. 2147483647

C28_Witness ==
    /\ util_ret.calls = <<"cycle_timings">>
    /\ util_arg.n = 24000
    /\ util_ret.output = <<41666, 20833>>


\* the statements of one cycle of the control loop, main.c:149-161
CycleStatements ==
    <<"LO = 0", "barrier_lo", "nanosleep", "LO = 1", "barrier_hi", "nanosleep">>

InCycleOrder(done) ==
    /\ Len(done) <= Len(CycleStatements)
    /\ \A i \in 1 .. Len(done) : done[i] = CycleStatements[i]

\* the clock of the stepped control loop shows the sleeps asked and no more
SleepsExact ==
    util_ret.output[1] =
        util_ret.value * 2 * HalfCycleNano(CycleNano(util_arg.data[1]))

\* C29 as stated: with exact sleeps a first generate_tone call performs d
\* divided by the cycle duration cycles, within 1 either way (10 within 1
\* for 1000 Hz and 10 ms), each cycle being flag, low-phase barrier, sleep,
\* flag, high-phase barrier, sleep.
C29_CyclesByCycleDuration ==
    util_arg.fn = "tone_loop" =>
        LET f     == util_arg.data[1]
            d     == util_arg.data[2]
            cycle == 1000000000 \div f
            n     == util_ret.value
        IN  /\ InCycleOrder(util_ret.calls)
            /\ (util_ret.status = 3 /\ SleepsExact) =>
                  /\ n * cycle - d * 1000000 <= cycle
                  /\ d * 1000000 - n * cycle <= cycle
                  /\ (f = 1000 /\ d = 10) => n \in 9 .. 11

\* C29 amended: with exact sleeps the call performs the least number of
\* cycles whose sleeps, two of floor(cycle_nano / 2) ns each, add up to the
\* duration or more, which is 10 for 1000 Hz and 10 ms; with sleeps that
\* last longer, or a clock that is read late, it performs no more than that,
\* down to none at all; each cycle is flag, low-phase barrier, sleep, flag,
\* high-phase barrier, sleep.
C29_CyclesBySleeps ==
    util_arg.fn = "tone_loop" =>
        LET f      == util_arg.data[1]
            d      == util_arg.data[2]
            sleeps == 2 * ((1000000000 \div f) \div 2)
            n      == util_ret.value
        IN  /\ InCycleOrder(util_ret.calls)
            /\ util_ret.status = 3 =>
                  /\ n >= 0
                  /\ n > 0 => (n - 1) * sleeps < d * 1000000
                  /\ SleepsExact =>
                        /\ n * sleeps >= d * 1000000
                        /\ (f = 1000 /\ d = 10) => n = 10

C29_Witness ==
    /\ util_arg.fn = "tone_loop"
    /\ util_arg.data = <<1000, 10>>
    /\ util_ret.status = 3
    /\ util_ret.value = 10
    /\ util_ret.output = <<10000000, 1>>


\* the calling thread is inside the sample loop of play_wav_am / play_wav_pwm
InSampleLoop == playPc \in {"for", "lock", "write", "unlock", "progress", "sleep"}

\* C30: in WAV playback (AM and PWM) every write of the sample loop to a
\* worker's active flag or duty cycle is made while the calling thread
\* holds core_mutex, at most one thread holds the mutex at a time, and the
\* mutex is free whenever the loop sleeps until the next sample.
C30_WritesUnderMutex ==
    /\ [](/\ Cardinality(core_mutex) <= 1
          /\ playPc = "sleep" => core_mutex = {})
    /\ [][(/\ InSampleLoop
           /\ \E w \in 1 .. wav_argv.num_cores :
                  \/ wav_workers'[w].active # wav_workers[w].active
                  \/ wav_workers'[w].duty_cycle # wav_workers[w].duty_cycle)
          => /\ core_mutex = {"feeder"}
             /\ core_mutex' = {"feeder"}]_vars

\* the second sample of an AM playback on two cores has been written, -32768
\* after 0, and the loop sleeps with the mutex free
C30_Witness ==
    /\ wav_argv.modulation = "am"
    /\ wav_argv.num_cores = 2
    /\ wav_argv.samples = <<0, -32768>>
    /\ playPc = "sleep"
    /\ play_i = 1
    /\ wav_workers[1].active = 1
    /\ wav_workers[2].active = 1
    /\ core_mutex = {}


\* C31: for every parameter set the OFDM entry point accepts, every
\* subcarrier frequency base_freq + i * freq_spacing given to a worker lies
\* in [20, 24000], and no worker computes its cycle from a frequency of zero.
C31_SubcarrierFrequenciesInRange ==
    /\ \A w \in Subcarriers :
           opc[w] # "none" => InRange(carriers[w].frequency)
    /\ "division_by_zero" \notin ofdm_ub


\* the workers whose active flag is 1
ActiveWorkers == {w \in 1 .. wav_argv.num_cores : wav_workers[w].active = 1}

\* the samples the sample loop has fed or is feeding
FedSamples ==
    {wav_argv.samples[i] :
        i \in 1 .. (IF playPc \in {"write", "unlock", "progress", "sleep"}
                    THEN play_i + 1 ELSE play_i)}

\* the activation patterns of the samples fed, and none active before the
\* first sample has been written completely
FedPatterns ==
    {1 .. sample_to_cores(s, wav_argv.num_cores) : s \in FedSamples}
        \cup (IF play_i = 0 /\ playPc \in {"for", "lock", "write"} THEN {{}} ELSE {})

\* C32: during AM playback, whenever a worker reads its active flag the set
\* of workers whose flag is 1 is the first k workers for the
\* k = sample_to_cores(sample) of one sample already fed, never a partially
\* updated pattern, and every such k is between 1 and num_cores.
C32_WorkersSeeFedPattern ==
    [][\A w \in Workers :
          (/\ wav_wpc'[w] # wav_wpc[w]
           /\ wav_wpc[w] \in {"if", "tone"}
           /\ wav_argv.modulation = "am"
           /\ InSampleLoop)
          => /\ ActiveWorkers \in FedPatterns
             /\ \A s \in FedSamples :
                    sample_to_cores(s, wav_argv.num_cores) \in 1 .. wav_argv.num_cores]_vars


\* C33 as stated: for every payload of at most 32 bytes the checksum that
\* create_frame stores equals the CRC byte that transmit_data_fsk transmits
\* for the same payload.
C33_FrameCrcEqualsFskCrc ==
    util_ret.calls = <<"create_frame", "transmit_data_fsk">> =>
        util_ret.frame.crc = util_ret.output[1]

\* C33 amended: the checksum that create_frame stores is the CRC byte of
\* transmit_data_fsk shifted through the 32 - n bytes of padding; the two are
\* equal for a payload of 32 bytes and when the transmitted CRC byte is 0,
\* as for the empty payload.
C33_FrameCrcIsFskCrcOverPadding ==
    util_ret.calls = <<"create_frame", "transmit_data_fsk">> =>
        LET n       == Len(util_arg.data)
            fsk_crc == util_ret.output[1]
            padding == [i \in 1 .. 32 - n |-> 0]
        IN  /\ n <= 32
            /\ util_ret.frame.crc = mod_crc8_from(fsk_crc, padding, 1)
            /\ n = 32 => util_ret.frame.crc = fsk_crc
            /\ fsk_crc = 0 => util_ret.frame.crc = 0

C33_Witness ==
    /\ util_ret.calls = <<"create_frame", "transmit_data_fsk">>
    /\ util_arg.data = <<1, 255>>
    /\ util_ret.output = <<230>>
    /\ util_ret.frame.crc = 35


\* the controller has left the control loop of generate_tone and has not yet
\* destroyed the barriers
ControlLoopExited == ctlPc \in {"cleanup", "cancel", "free", "destroy"}

\* C34: the controller tests the elapsed time and the running flag only
\* between cycles, so whenever the control loop has exited the phase flag is
\* in the low state (LO = 1) if at least one cycle was run, and the
\* high-phase and the low-phase barrier have released equally often.
C34_LoopExitsAtCycleBoundary ==
    ControlLoopExited =>
        /\ cycles >= 1 => LO = 1
        /\ bar_hi.released = bar_lo.released


\* a signal ended a 2 ms tone at 1000 Hz on two cores after its first cycle
C34_Witness ==
    /\ ctlPc = "cleanup"
    /\ signalled
    /\ gt = [freq |-> 1000, duration_ms |-> 2, num_cores |-> 2]
    /\ cycles = 1
    /\ now - start < duration_nano
    /\ LO = 1
    /\ bar_lo.released = 1
    /\ bar_hi.released = 1


\* C35: when the controller of generate_tone frees the workers array and
\* destroys the two barriers no worker is blocked on either barrier, and no
\* worker reads its worker record or waits on a barrier afterwards, also in
\* a call whose control loop runs no cycle.
C35_NoUseAfterFreeOrDestroy ==
    /\ ctlPc \in {"free", "destroy"} =>
           /\ bar_lo.in = 0
           /\ bar_hi.in = 0
           /\ \A w \in Workers : wpc[w] \notin {"at_lo", "at_hi"}
    /\ ub \cap {"destroy_busy", "use_after_free", "wait_destroyed"} = {}

=============================================================================
